---- MODULE Spec2Model ----
(***************************************************************************)
(* Verification model of nzxt-rust-devices: the FIFO bucket manager        *)
(* (device/bucket_manager.rs), the asset upload handshake and the memory   *)
(* layout planner (device/kraken.rs, device/bulk.rs) and the device        *)
(* session (initialize / get_status, device/kraken.rs).                    *)
(***************************************************************************)
EXTENDS Integers, Sequences, FiniteSets, TLC

(***************************************************************************)
(* Program constants.                                                      *)
(***************************************************************************)
MAX_BUCKETS == 16
\* Mutant: a high water mark one too high.
HighWaterMarkOffByOne == 12 + 1
HIGH_WATER_MARK == 12
EVICT_TRIES == 8
LCD_TOTAL_MEMORY == 24320
\* 320 * 320 * 4: the RGBA frame every monitor cycle uploads.
IMAGE_SIZE_RGBA == 409600
\* HID polling loops: `for _ in 0..10`.
READ_TRIES == 10

(***************************************************************************)
(* Bounds of the model.                                                    *)
(***************************************************************************)
\* Release calls explored in one run of the bucket manager.
MaxReleases == 1
\* The device tables from_device() is run on: a prefix 0..n-1 of occupied
\* slots with at most MaxHoles free slots inside it.
MaxHoles == 1
\* upload_image_bulk calls explored on one device table.
MaxUploads == 2
\* Transport faults (failed write, failed or empty read, unanswered query)
\* explored in one run of the upload handshake.
MaxFaults == 1
\* Monitor cycles (acquire, then upload) explored, and the faults in them.
MaxCycles == 64
CycleFaults == 1
\* initialize() and get_status() calls explored on one session.
MaxSessionCalls == 2

Indices == 0 .. (MAX_BUCKETS - 1)
\* u8 arguments of release(): every slot index and two values beyond the table.
ReleaseArgs == Indices \cup {MAX_BUCKETS, 255}

\* Marks "no value" in acqRet and "not recording" in acqRun.
None == -1
Untracked == <<None>>

VARIABLES
    occupied,     \* BucketManager.occupied: [bool; MAX_BUCKETS]
    queue,        \* BucketManager.queue: VecDeque<u8>, front first
    acqRet,       \* history: value returned by the last call if it was acquire(), else None
    acqDeletes,   \* history: the delete_bucket(idx) calls that acquire() made, in order
    acqRun,       \* history: values returned by the acquire() calls made, with no other
                  \* call in between, on a manager that was empty; Untracked otherwise
    releases,     \* number of release() calls made (bounded by MaxReleases)
    dev,          \* the device's bucket table: slot -> [start, size] in pages, size 0 = absent
    display,      \* <<mode, index>> last set by a visual-mode command, or <<>>
    upPc,         \* position of the caller: "idle", "acquired", or the next upload phase
    upIdx,        \* upload_image_bulk: index
    upLen,        \* upload_image_bulk: data.len()
    buckets,      \* upload_image_bulk: the table query_all_buckets returned
    memStart,     \* upload_image_bulk: memory_start
    upLog,        \* history: the phases the running (or last) upload issued, in order
    upResult,     \* "none" while running; "ok", "err" or "panic" of the last upload
    callsLeft,    \* uploads or cycles still to be started (bounded)
    faultsLeft,   \* transport faults still to be injected (bounded)
    firmware,     \* KrakenZ63.firmware: Option<FirmwareVersion>
    sCall,        \* the session call running or last run: "none", "initialize", "get_status"
    sPc,          \* its position: "idle", "drain", "request", "poll", "led", "interval", "complete"
    sBuf,         \* buf: the frame the last successful read stored
    sReads,       \* iterations of the polling loop `for _ in 0..10` done
    sFw,          \* initialize: the local fw
    sLog,         \* history: the commands the call wrote, in order
    sResult,      \* the value the last call returned
    sFirst,       \* history: the first frame with a status header a polling read returned
    initialized,  \* history: an initialize() call has returned Ok on this session
    sCallsLeft,   \* session calls still to be started (bounded)
    opName,       \* the control call or function applied, "none" before it
    opArgs,       \* its arguments
    opWire,       \* the frames the call wrote to the transport, in order
    opRet,        \* what it returned
    running,      \* the cancellation flag of the command loop
    loopKind,     \* the command whose loop runs, "none" outside one
    loopPc,       \* the statement of the loop the command is at
    cycle_count,  \* iterations of the loop started so far
    qPc,          \* query_all_buckets: "idle", "write", "read", "done" or "failed"
    qIdx,         \* query_all_buckets: i, the slot being queried
    qReads,       \* query_bucket: iterations of `for _ in 0..10` done
    qWire,        \* 0x31 0x04 responses the device has sent and the host has not read
    qOut,         \* query_all_buckets: the Vec built so far
    qSrc          \* history: for each entry of qOut, the slot whose response gave it

mgrVars == <<occupied, queue, acqRet, acqDeletes, acqRun, releases>>
devVars == <<dev, display>>
upVars == <<upPc, upIdx, upLen, buckets, memStart, upLog, upResult>>
envVars == <<callsLeft, faultsLeft>>
sessVars == <<firmware, sCall, sPc, sBuf, sReads, sFw, sLog, sResult, sFirst,
              initialized, sCallsLeft>>
opVars == <<opName, opArgs, opWire, opRet>>
loopVars == <<running, loopKind, loopPc, cycle_count>>
queryVars == <<qPc, qIdx, qReads, qWire, qOut, qSrc>>
vars == <<occupied, queue, acqRet, acqDeletes, acqRun, releases,
          dev, display, upPc, upIdx, upLen, buckets, memStart, upLog, upResult,
          callsLeft, faultsLeft,
          firmware, sCall, sPc, sBuf, sReads, sFw, sLog, sResult, sFirst,
          initialized, sCallsLeft,
          opName, opArgs, opWire, opRet,
          running, loopKind, loopPc, cycle_count,
          qPc, qIdx, qReads, qWire, qOut, qSrc>>

(***************************************************************************)
(* BucketManager                                                           *)
(***************************************************************************)
EmptyTable == [i \in Indices |-> FALSE]

\* BucketManager::new
NewManager == [occupied |-> EmptyTable, queue |-> <<>>]

RECURSIVE SeedFrom(_, _, _)
\* The loop of from_device over the queried table, from index i on: buckets
\* that exist are marked and pushed in index order.
SeedFrom(i, exists, m) ==
    IF i = MAX_BUCKETS THEN m
    ELSE SeedFrom(i + 1, exists,
                  IF i \in exists
                  THEN [occupied |-> [m.occupied EXCEPT ![i] = TRUE],
                        queue |-> Append(m.queue, i)]
                  ELSE m)

\* BucketManager::from_device, `exists` the set of slots the query reports
\* as existing (a failed query leaves the manager empty: exists = {}).
FromDevice(exists) == SeedFrom(0, exists, NewManager)

\* BucketManager::occupied_count
OccupiedCount(occ) == Cardinality({i \in Indices : occ[i]})

\* The first index of the scan `for i in 0..MAX_BUCKETS` that is free.
HasFree(occ) == \E i \in Indices : ~occ[i]
\* Mutant: the scan runs from the top of the table down.
LastFree(occ) == CHOOSE i \in Indices : ~occ[i] /\ \A j \in (i + 1) .. (MAX_BUCKETS - 1) : occ[j]
FirstFree(occ) == CHOOSE i \in Indices : ~occ[i] /\ \A j \in 0 .. (i - 1) : occ[j]

RECURSIVE EvictThree(_, _)
\* Mutant: the loop frees the 3 oldest, `for i in 0..3`.
EvictThree(i, st) ==
    IF i = 3 THEN st
    ELSE IF st.queue = <<>> THEN EvictThree(i + 1, st)
    ELSE LET oldest == Head(st.queue)
             rest == Tail(st.queue)
         IN  IF i = 0
             THEN EvictThree(i + 1, [occupied |-> st.occupied,
                                     queue |-> Append(rest, oldest),
                                     freed |-> oldest,
                                     deletes |-> Append(st.deletes, oldest)])
             ELSE EvictThree(i + 1, [occupied |-> [st.occupied EXCEPT ![oldest] = FALSE],
                                     queue |-> rest,
                                     freed |-> st.freed,
                                     deletes |-> Append(st.deletes, oldest)])

RECURSIVE EvictFromBack(_, _)
\* Mutant: the loop takes the newest entries, pop_back for pop_front.
EvictFromBack(i, st) ==
    IF i = EVICT_TRIES THEN st
    ELSE IF st.queue = <<>> THEN EvictFromBack(i + 1, st)
    ELSE LET newest == st.queue[Len(st.queue)]
             rest == SubSeq(st.queue, 1, Len(st.queue) - 1)
         IN  IF i = 0
             THEN EvictFromBack(i + 1, [occupied |-> st.occupied,
                                        queue |-> Append(rest, newest),
                                        freed |-> newest,
                                        deletes |-> Append(st.deletes, newest)])
             ELSE EvictFromBack(i + 1, [occupied |-> [st.occupied EXCEPT ![newest] = FALSE],
                                        queue |-> rest,
                                        freed |-> st.freed,
                                        deletes |-> Append(st.deletes, newest)])

\* Mutant: the eviction loop stops after the first, reused, bucket.
EvictOnlyFirst(i, st) ==
    IF st.queue = <<>> THEN st
    ELSE [occupied |-> st.occupied,
          queue |-> Append(Tail(st.queue), Head(st.queue)),
          freed |-> Head(st.queue),
          deletes |-> Append(st.deletes, Head(st.queue))]

RECURSIVE Evict(_, _)
\* The loop `for i in 0..8` of acquire from iteration i on; st holds the
\* table, the queue, freed_bucket and the deletes issued so far.
Evict(i, st) ==
    IF i = EVICT_TRIES THEN st
    ELSE IF st.queue = <<>> THEN Evict(i + 1, st)
    ELSE LET oldest == Head(st.queue)
             rest == Tail(st.queue)
         IN  IF i = 0
             THEN Evict(i + 1, [occupied |-> st.occupied,
                                queue |-> Append(rest, oldest),
                                freed |-> oldest,
                                deletes |-> Append(st.deletes, oldest)])
             ELSE Evict(i + 1, [occupied |-> [st.occupied EXCEPT ![oldest] = FALSE],
                                queue |-> rest,
                                freed |-> st.freed,
                                deletes |-> Append(st.deletes, oldest)])

\* Mutant: the free-slot scan returns the slot without marking it.
AcquireForgetsMark(occ, q) ==
    IF Len(q) < HIGH_WATER_MARK /\ HasFree(occ)
    THEN [occupied |-> occ,
          queue |-> Append(q, FirstFree(occ)),
          ret |-> FirstFree(occ),
          deletes |-> <<>>]
    ELSE LET st == Evict(0, [occupied |-> occ, queue |-> q,
                             freed |-> None, deletes |-> <<>>])
         IN  [occupied |-> st.occupied,
              queue |-> st.queue,
              ret |-> IF st.freed # None THEN st.freed ELSE 0,
              deletes |-> st.deletes]

\* BucketManager::acquire as a function of the manager: the new table and
\* queue, the returned index and the delete commands written to the device.
AcquireOf(occ, q) ==
    IF Len(q) < HIGH_WATER_MARK /\ HasFree(occ)
    THEN LET i == FirstFree(occ)
         IN  [occupied |-> [occ EXCEPT ![i] = TRUE],
              queue |-> Append(q, i),
              ret |-> i,
              deletes |-> <<>>]
    ELSE LET st == Evict(0, [occupied |-> occ, queue |-> q,
                             freed |-> None, deletes |-> <<>>])
         IN  [occupied |-> st.occupied,
              queue |-> st.queue,
              ret |-> IF st.freed # None THEN st.freed ELSE 0,
              deletes |-> st.deletes]

\* Mutant: release() that forgets to take the index out of the queue.
RetainKeepsAll(q, idx) == q

\* VecDeque::retain(|&x| x != idx)
Retain(q, idx) == SelectSeq(q, LAMBDA x : x # idx)

\* Mutant: release() that leaves the slot marked occupied.
ReleaseKeepsSlot(occ, q, idx) ==
    IF idx < MAX_BUCKETS
    THEN [occupied |-> occ, queue |-> Retain(q, idx)]
    ELSE [occupied |-> occ, queue |-> q]

\* BucketManager::release
ReleaseOf(occ, q, idx) ==
    IF idx < MAX_BUCKETS
    THEN [occupied |-> [occ EXCEPT ![idx] = FALSE], queue |-> Retain(q, idx)]
    ELSE [occupied |-> occ, queue |-> q]

\* The device tables from_device() is run on.
Prefix(n) == {i \in Indices : i < n}
DeviceSeeds ==
    {Prefix(n) \ h : n \in 0 .. MAX_BUCKETS,
                     h \in {s \in SUBSET Indices : Cardinality(s) <= MaxHoles}}

(***************************************************************************)
(* The device as the driver's commands address it                          *)
(***************************************************************************)
Absent == [start |-> 0, size |-> 0]
ClearedDevice == [i \in Indices |-> Absent]

\* Delete (32 02 idx): the slot's backing region is destroyed.
DevDelete(d, i) == IF i \in Indices THEN [d EXCEPT ![i] = Absent] ELSE d

\* Setup (32 01 idx id start size 01): the slot gets a new backing region.
DevSetup(d, i, start, pages) ==
    IF i \in Indices THEN [d EXCEPT ![i] = [start |-> start, size |-> pages]] ELSE d

\* query_bucket: the tuple parsed from the 31 04 response of slot i,
\* or (false, 0, 0, 0) when no response is seen within the 10 reads.
QueryBucket(d, i, answered) ==
    IF answered
    THEN [idx |-> i, exists |-> d[i].size > 0, start |-> d[i].start, size |-> d[i].size]
    ELSE [idx |-> i, exists |-> FALSE, start |-> 0, size |-> 0]

\* query_all_buckets: the Vec built for slots 0..n-1, `silent` the slots
\* whose query went unanswered.
QueryAll(d, n, silent) == [k \in 1 .. n |-> QueryBucket(d, k - 1, (k - 1) \notin silent)]

(***************************************************************************)
(* Memory layout planner                                                   *)
(***************************************************************************)
Wrap16(x) == x % 65536
MaxOf(S) == CHOOSE x \in S : \A y \in S : y <= x
MinOf(S) == CHOOSE x \in S : \A y \in S : x <= y

\* (data.len() + 20).div_ceil(1024) as u16
PageCount(len) == Wrap16((len + 20 + 1023) \div 1024)

\* Positions of the occupied buckets other than the target.
Others(bk, target) == {k \in 1 .. Len(bk) : bk[k].exists /\ bk[k].idx # target}

\* buckets.iter().find(|(i, ..)| *i == target_idx)
FindTarget(bk, target) ==
    LET hits == {k \in 1 .. Len(bk) : bk[k].idx = target}
    IN  IF hits = {} THEN 0 ELSE MinOf(hits)

ReusesTarget(bk, target, needed) ==
    LET k == FindTarget(bk, target)
    IN  k # 0 /\ bk[k].exists /\ bk[k].size >= needed

MaxEnd(bk, target) ==
    IF Others(bk, target) = {} THEN 0
    ELSE MaxOf({Wrap16(bk[k].start + bk[k].size) : k \in Others(bk, target)})

MinStart(bk, target) ==
    IF Others(bk, target) = {} THEN 65535
    ELSE MinOf({bk[k].start : k \in Others(bk, target)})

\* calculate_memory_offset, with the u16 sums wrapping.
CalcOffset(bk, target, needed) ==
    IF ReusesTarget(bk, target, needed) THEN bk[FindTarget(bk, target)].start
    ELSE IF Wrap16(MaxEnd(bk, target) + needed) <= LCD_TOTAL_MEMORY THEN MaxEnd(bk, target)
    ELSE IF MinStart(bk, target) # 65535 /\ needed <= MinStart(bk, target) THEN 0
    ELSE 0

\* A u16 sum of calculate_memory_offset exceeds 65535: an overflow panic in
\* a build with overflow checks, a wrapped value otherwise.
CalcOverflows(bk, target, needed) ==
    /\ ~ReusesTarget(bk, target, needed)
    /\ \/ \E k \in Others(bk, target) : bk[k].start + bk[k].size > 65535
       \/ MaxEnd(bk, target) + needed > 65535

(***************************************************************************)
(* Response frames and their parsers (protocol/commands.rs, status.rs)     *)
(***************************************************************************)
RESP_FIRMWARE == <<17, 1>>
RESP_LED_INFO == 33
RESP_BUCKET_SETUP == 51
RESP_STATUS == <<117, 1>>
RESP_STATUS_ALT == 113
RESP_SPEED_ACK == <<255, 1>>
RESP_SUB_OK == 1
INVALID_TEMP_SENTINEL == <<255, 255>>

\* A frame is the bytes 0..24 of the 64-byte report (the parsers read no
\* byte beyond 24); byte i of frame f:
FrameLen == 25
Byte(f, i) == f[i + 1]
ZeroFrame == [i \in 1 .. FrameLen |-> 0]
NoFrame == <<>>

\* A frame with header (b0, b1), bytes 15 and 16 as given and every other
\* byte i holding 10 + i, so that each offset reads a different value.
MkFrame(b0, b1, b15, b16) ==
    [k \in 1 .. FrameLen |->
        IF k = 1 THEN b0
        ELSE IF k = 2 THEN b1
        ELSE IF k = 16 THEN b15
        ELSE IF k = 17 THEN b16
        ELSE 10 + (k - 1)]

\* The frames the device is let to send: every header the driver tells
\* apart (and 0x31, which it does not), with sub-code 1 or 2, carrying a
\* temperature of 32.5 or the fault sentinel.
FrameHeaders == {17, 33, 51, 117, 113, 255, 49}
PrimaryFrames ==
    {MkFrame(b0, b1, t[1], t[2]) :
        b0 \in FrameHeaders, b1 \in {1, 2}, t \in {<<32, 5>>, <<255, 255>>}}

\* Frames of the alternate layout, whose temperature is in bytes 2 and 3,
\* carrying the fault sentinel there.
AltFaultFrames ==
    {[MkFrame(b0, RESP_SUB_OK, 32, 5) EXCEPT ![3] = 255, ![4] = 255] :
        b0 \in {RESP_STATUS_ALT, RESP_SPEED_ACK[1]}}

Frames == PrimaryFrames \cup AltFaultFrames

\* Results of the session calls.
NoStatus == [temp10 |-> 0, pump_rpm |-> 0, pump_duty |-> 0, fan_rpm |-> 0, fan_duty |-> 0]
NoVersion == [major |-> 0, minor |-> 0, patch |-> 0]
Result(kind, msg, status, fw) == [kind |-> kind, msg |-> msg, status |-> status, fw |-> fw]
NoResult == Result("none", "", NoStatus, NoVersion)
ErrResult(kind, msg) == Result(kind, msg, NoStatus, NoVersion)

\* (hi as u16) << 8 | (lo as u16)
Word(lo, hi) == hi * 256 + lo

\* Mutant: a header that is not a status header yields a zero status.
ParseDefaultsUnknown(f) ==
    IF Byte(f, 0) = RESP_STATUS[1] /\ Byte(f, 1) = RESP_STATUS[2]
    THEN Result("Ok", "",
                [temp10 |-> 10 * Byte(f, 15) + Byte(f, 16),
                 pump_rpm |-> Word(Byte(f, 17), Byte(f, 18)),
                 pump_duty |-> Byte(f, 19),
                 fan_rpm |-> Word(Byte(f, 23), Byte(f, 24)),
                 fan_duty |-> Byte(f, 20)],
                NoVersion)
    ELSE Result("Ok", "", NoStatus, NoVersion)

\* DeviceStatus::parse on a 64-byte buffer; liquid_temp_c in tenths of a degree.
Parse(f) ==
    IF Byte(f, 0) = RESP_STATUS[1] /\ Byte(f, 1) = RESP_STATUS[2]
    THEN IF <<Byte(f, 15), Byte(f, 16)>> = INVALID_TEMP_SENTINEL
         THEN ErrResult("InvalidResponse", "fault")
         ELSE Result("Ok", "",
                     [temp10 |-> 10 * Byte(f, 15) + Byte(f, 16),
                      pump_rpm |-> Word(Byte(f, 17), Byte(f, 18)),
                      pump_duty |-> Byte(f, 19),
                      fan_rpm |-> Word(Byte(f, 23), Byte(f, 24)),
                      fan_duty |-> Byte(f, 20)],
                     NoVersion)
    ELSE IF (Byte(f, 0) = RESP_STATUS_ALT \/ Byte(f, 0) = RESP_SPEED_ACK[1])
            /\ Byte(f, 1) = RESP_SUB_OK
    THEN Result("Ok", "",
                [temp10 |-> 10 * Byte(f, 2) + Byte(f, 3),
                 pump_rpm |-> Word(Byte(f, 5), Byte(f, 6)),
                 pump_duty |-> Byte(f, 7),
                 fan_rpm |-> Word(Byte(f, 14), Byte(f, 15)),
                 fan_duty |-> Byte(f, 13)],
                NoVersion)
    ELSE ErrResult("InvalidResponse", "unknown header")

(***************************************************************************)
(* Device session: initialize and get_status                               *)
(***************************************************************************)
\* KrakenZ63::open(): firmware: None
NoFirmware == "None"

SessionIdle(calls) ==
    /\ firmware = NoFirmware
    /\ sCall = "none"
    /\ sPc = "idle"
    /\ sBuf = ZeroFrame
    /\ sReads = 0
    /\ sFw = NoVersion
    /\ sLog = <<>>
    /\ sResult = NoResult
    /\ sFirst = NoFrame
    /\ initialized = FALSE
    /\ sCallsLeft = calls

\* What a read_timeout call can return: Err, Ok(0), or a frame.
ReadOutcomes ==
    {[kind |-> k, frame |-> ZeroFrame] : k \in {"err", "none"}}
        \cup {[kind |-> "frame", frame |-> f] : f \in Frames}

NotSession == <<mgrVars, devVars, upVars, envVars, opVars, loopVars, queryVars>>

\* Entry of initialize() or get_status() on the opened session.
EnterCall ==
    /\ sPc = "idle"
    /\ sCallsLeft > 0
    /\ sCallsLeft' = sCallsLeft - 1
    /\ sPc' = "drain"
    /\ sBuf' = ZeroFrame
    /\ sReads' = 0
    /\ sFw' = NoVersion
    /\ sLog' = <<>>
    /\ sResult' = NoResult
    /\ sFirst' = NoFrame
    /\ UNCHANGED <<firmware, initialized, NotSession>>

InitializeCall ==
    /\ sCall' = "initialize"
    /\ EnterCall

GetStatusCall ==
    /\ sCall' = "get_status"
    /\ EnterCall

\* One pass of `loop { read_timeout(&mut buf, 1); break on Err or 0 }`.
Drain ==
    /\ sPc = "drain"
    /\ \E r \in ReadOutcomes :
        /\ sBuf' = IF r.kind = "frame" THEN r.frame ELSE sBuf
        /\ sPc' = IF r.kind = "frame" THEN "drain" ELSE "request"
    /\ UNCHANGED <<firmware, sCall, sReads, sFw, sLog, sResult, sFirst, initialized,
                   sCallsLeft, NotSession>>

\* Mutant: the result of the write is dropped, `let _ = self.write(..)`.
SessionWriteGoesOn(here, cmd, next) ==
    /\ sPc = here
    /\ sLog' = Append(sLog, cmd)
    /\ \E ok \in BOOLEAN :
        /\ sPc' = next
        /\ sResult' = IF ok THEN sResult ELSE ErrResult("HidError", "write")

\* A command write of the session call: `self.write(..)?`.
SessionWrite(here, cmd, next) ==
    /\ sPc = here
    /\ sLog' = Append(sLog, cmd)
    /\ \E ok \in BOOLEAN :
        /\ sPc' = IF ok THEN next ELSE "idle"
        /\ sResult' = IF ok THEN sResult ELSE ErrResult("HidError", "write")

\* self.write(&CMD_FIRMWARE_INFO)?, then a fresh buf
RequestFirmware ==
    /\ sCall = "initialize"
    /\ SessionWrite("request", "FirmwareInfo", "poll")
    /\ sBuf' = ZeroFrame
    /\ UNCHANGED <<firmware, sCall, sReads, sFw, sFirst, initialized, sCallsLeft, NotSession>>

\* self.write(&CMD_REQUEST_STATUS)?
RequestStatus ==
    /\ sCall = "get_status"
    /\ SessionWrite("request", "RequestStatus", "poll")
    /\ UNCHANGED <<firmware, sCall, sBuf, sReads, sFw, sFirst, initialized, sCallsLeft,
                   NotSession>>

\* One iteration of the firmware loop of initialize: a failed or empty read
\* and a frame with another header go to the next iteration.
PollFirmware ==
    /\ sCall = "initialize"
    /\ sPc = "poll"
    /\ \E r \in ReadOutcomes :
        LET found == /\ r.kind = "frame"
                     /\ Byte(r.frame, 0) = RESP_FIRMWARE[1]
                     /\ Byte(r.frame, 1) = RESP_FIRMWARE[2]
        IN  /\ sBuf' = IF r.kind = "frame" THEN r.frame ELSE sBuf
            /\ sFw' = IF found
                      THEN [major |-> Byte(r.frame, 17), minor |-> Byte(r.frame, 18),
                            patch |-> Byte(r.frame, 19)]
                      ELSE sFw
            /\ sReads' = sReads + 1
            /\ sPc' = IF found \/ sReads + 1 = READ_TRIES THEN "led" ELSE "poll"
    /\ UNCHANGED <<firmware, sCall, sLog, sResult, sFirst, initialized, sCallsLeft,
                   NotSession>>

\* self.write(&CMD_LED_INFO)?
WriteLedInfo ==
    /\ SessionWrite("led", "LedInfo", "interval")
    /\ UNCHANGED <<firmware, sCall, sBuf, sReads, sFw, sFirst, initialized, sCallsLeft,
                   NotSession>>

\* self.write(&CMD_INIT_INTERVAL)?
WriteInterval ==
    /\ SessionWrite("interval", "InitInterval", "complete")
    /\ UNCHANGED <<firmware, sCall, sBuf, sReads, sFw, sFirst, initialized, sCallsLeft,
                   NotSession>>

\* self.write(&CMD_INIT_COMPLETE)?, then Ok(fw); self.firmware is not assigned.
WriteComplete ==
    /\ sPc = "complete"
    /\ sLog' = Append(sLog, "InitComplete")
    /\ \E ok \in BOOLEAN :
        /\ sResult' = IF ok THEN Result("Ok", "", NoStatus, sFw)
                      ELSE ErrResult("HidError", "write")
        /\ initialized' = (initialized \/ ok)
    /\ sPc' = "idle"
    /\ UNCHANGED <<firmware, sCall, sBuf, sReads, sFw, sFirst, sCallsLeft, NotSession>>

\* get_status: `buf[0] == RESP_FIRMWARE[0] || buf[0] == RESP_LED_INFO || ..`
Skips(f) ==
    \/ Byte(f, 0) = RESP_FIRMWARE[1]
    \/ Byte(f, 0) = RESP_LED_INFO
    \/ Byte(f, 0) = RESP_BUCKET_SETUP

\* Mutant: the sub-code of the frame is not looked at.
AcceptsAnySub(f) ==
    \/ Byte(f, 0) = RESP_STATUS[1]
    \/ Byte(f, 0) = RESP_STATUS_ALT
    \/ Byte(f, 0) = RESP_SPEED_ACK[1]

\* get_status: the condition under which the frame is parsed and returned.
Accepts(f) ==
    /\ \/ Byte(f, 0) = RESP_STATUS[1]
       \/ Byte(f, 0) = RESP_STATUS_ALT
       \/ Byte(f, 0) = RESP_SPEED_ACK[1]
    /\ Byte(f, 1) = RESP_SUB_OK

\* The frame has a header DeviceStatus::parse knows.
HasStatusHeader(f) == Parse(f).msg # "unknown header"

\* One iteration of the polling loop of get_status.
PollStatus ==
    /\ sCall = "get_status"
    /\ sPc = "poll"
    /\ \E r \in ReadOutcomes :
        /\ sBuf' = IF r.kind = "frame" THEN r.frame ELSE sBuf
        /\ sReads' = sReads + 1
        /\ sFirst' = IF r.kind = "frame" /\ HasStatusHeader(r.frame) /\ sFirst = NoFrame
                     THEN r.frame ELSE sFirst
        /\ IF r.kind = "err"
           THEN /\ sPc' = "idle"
                /\ sResult' = ErrResult("HidError", "read")
           ELSE IF r.kind = "frame" /\ ~Skips(r.frame) /\ Accepts(r.frame)
           THEN /\ sPc' = "idle"
                /\ sResult' = Parse(r.frame)
           ELSE IF sReads + 1 = READ_TRIES
           THEN /\ sPc' = "idle"
                /\ sResult' = ErrResult("Timeout", "")
           ELSE /\ sPc' = "poll"
                /\ sResult' = sResult
    /\ UNCHANGED <<firmware, sCall, sFw, sLog, initialized, sCallsLeft, NotSession>>

(***************************************************************************)
(* Control calls and the pure functions behind them                        *)
(***************************************************************************)
OpIdle ==
    /\ opName = "none"
    /\ opArgs = <<>>
    /\ opWire = <<>>
    /\ opRet = [kind |-> "none"]

\* No query_all_buckets call is running.
QueryIdle ==
    /\ qPc = "idle"
    /\ qIdx = 0
    /\ qReads = 0
    /\ qWire = <<>>
    /\ qOut = <<>>
    /\ qSrc = <<>>

\* No command loop is running.
LoopIdle ==
    /\ running = TRUE
    /\ loopKind = "none"
    /\ loopPc = "none"
    /\ cycle_count = 0

HID_REPORT_LENGTH == 64
CRITICAL_TEMPERATURE == 59
MIN_CURVE_TEMP == 20
CURVE_POINTS == 40
CMD_SET_SPEED_HEADER == 114
MAX_DUTY == 100
U8 == 0 .. 255

Channels == {"Pump", "Fan"}
ChannelId(ch) == IF ch = "Pump" THEN 1 ELSE 2
MinDuty(ch) == IF ch = "Pump" THEN 20 ELSE 0

Ok(v) == [kind |-> "Ok", val |-> v]
Err(kind, v) == [kind |-> kind, val |-> v]

\* Mutant: the lower limit of the channel is not looked at.
ValidateDutyMaxOnly(ch, duty) ==
    IF duty > MAX_DUTY
    THEN Err("InvalidDuty", <<ch, duty, MinDuty(ch), MAX_DUTY>>)
    ELSE Ok(duty)

\* Channel::validate_duty
ValidateDuty(ch, duty) ==
    IF duty < MinDuty(ch) \/ duty > MAX_DUTY
    THEN Err("InvalidDuty", <<ch, duty, MinDuty(ch), MAX_DUTY>>)
    ELSE Ok(duty)

\* build_speed_profile_cmd; duties is indexed 0 .. CURVE_POINTS - 1 and
\* byte i of the report is element i + 1 of the sequence.
BuildSpeedProfileCmd(ch, duties) ==
    [k \in 1 .. HID_REPORT_LENGTH |->
        IF k = 1 THEN CMD_SET_SPEED_HEADER
        ELSE IF k = 2 THEN ChannelId(ch)
        ELSE IF k - 1 < 2 + CURVE_POINTS THEN duties[k - 3]
        ELSE 0]

\* build_fixed_speed_cmd
BuildFixedSpeedCmd(ch, duty) ==
    LET v == ValidateDuty(ch, duty)
    IN  IF v.kind # "Ok" THEN v
        ELSE Ok(BuildSpeedProfileCmd(ch, [i \in 0 .. (CURVE_POINTS - 1) |-> v.val]))

\* A curve point is <<temperature, duty>>.
Temp(pt) == pt[1]
Duty(pt) == pt[2]

\* sort_by_key(|(t, _)| *t): a stable sort, points of equal temperature
\* keep the order they were given in.
RECURSIVE InsertByTemp(_, _)
InsertByTemp(sorted, pt) ==
    IF sorted = <<>> THEN <<pt>>
    ELSE IF Temp(sorted[Len(sorted)]) <= Temp(pt) THEN Append(sorted, pt)
    ELSE Append(InsertByTemp(SubSeq(sorted, 1, Len(sorted) - 1), pt), sorted[Len(sorted)])

RECURSIVE SortByTemp(_)
SortByTemp(pts) ==
    IF pts = <<>> THEN <<>>
    ELSE InsertByTemp(SortByTemp(SubSeq(pts, 1, Len(pts) - 1)), pts[Len(pts)])

\* iter().find(..) and iter().rfind(..): the first / last of the positions
\* `hits` whose element satisfies the test, 0 for None.
FirstAt(hits) == IF hits = {} THEN 0 ELSE MinOf(hits)
LastAt(hits) == IF hits = {} THEN 0 ELSE MaxOf(hits)

\* (d1 as f32 + ratio * (d2 as f32 - d1 as f32)).round() as u8 with
\* ratio = (t - t1) as f32 / (t2 - t1) as f32, for t1 <= t <= t2, t1 < t2.
\* The exact value is LerpNum / (t2 - t1).  The f32 evaluation is off by
\* less than 1/1000 for u8 operands, so it rounds to the nearest integer
\* whenever the exact value is not half-way between two integers.  At a
\* half-way value: when the ratio is a fraction with a power of two as
\* denominator every f32 step is exact and round() goes away from zero
\* (1/2 of the way from 25 to 50 gives 38); otherwise the f32 value can
\* fall on either side (7/12 of the way from 0 to 54 gives 31, 1/6 of the
\* way from 0 to 3 gives 1): `up` picks the side.
RECURSIVE Gcd(_, _)
Gcd(a, b) == IF b = 0 THEN a ELSE Gcd(b, a % b)
RECURSIVE IsPow2(_)
IsPow2(n) == n = 1 \/ (n % 2 = 0 /\ IsPow2(n \div 2))
ExactRatio(t1, t2, t) == IsPow2((t2 - t1) \div Gcd(t2 - t1, t - t1))
LerpNum(t1, d1, t2, d2, t) == d1 * (t2 - t1) + (t - t1) * (d2 - d1)
IsTie(t1, d1, t2, d2, t) ==
    /\ (2 * LerpNum(t1, d1, t2, d2, t)) % (2 * (t2 - t1)) = t2 - t1
    /\ ~ExactRatio(t1, t2, t)

\* Mutant: the fraction is dropped instead of rounded.
LerpTruncates(t1, d1, t2, d2, t, up) == LerpNum(t1, d1, t2, d2, t) \div (t2 - t1)

Lerp(t1, d1, t2, d2, t, up) ==
    LET den == t2 - t1
        num == LerpNum(t1, d1, t2, d2, t)
        low == num \div den
        rem == num % den
    IN  IF 2 * rem < den THEN low
        ELSE IF 2 * rem > den THEN low + 1
        ELSE IF up \/ ExactRatio(t1, t2, t) THEN low + 1 ELSE low

\* The value interpolate_profile computes for temperature t from the
\* sorted points.
ProfileDutyAt(sorted, t, up) ==
    LET exact == FirstAt({k \in DOMAIN sorted : Temp(sorted[k]) = t})
        lower == LastAt({k \in DOMAIN sorted : Temp(sorted[k]) < t})
        upper == FirstAt({k \in DOMAIN sorted : Temp(sorted[k]) > t})
    IN  IF exact # 0 THEN Duty(sorted[exact])
        ELSE IF lower # 0 /\ upper # 0
        THEN Lerp(Temp(sorted[lower]), Duty(sorted[lower]),
                  Temp(sorted[upper]), Duty(sorted[upper]), t, up)
        ELSE IF lower # 0 THEN Duty(sorted[lower])
        ELSE Duty(sorted[upper])

\* Temperatures at which the profile's value is half-way between two integers.
TieTemps(sorted) ==
    {t \in MIN_CURVE_TEMP .. CRITICAL_TEMPERATURE :
        LET lower == LastAt({k \in DOMAIN sorted : Temp(sorted[k]) < t})
            upper == FirstAt({k \in DOMAIN sorted : Temp(sorted[k]) > t})
        IN  /\ FirstAt({k \in DOMAIN sorted : Temp(sorted[k]) = t}) = 0
            /\ lower # 0
            /\ upper # 0
            /\ IsTie(Temp(sorted[lower]), Duty(sorted[lower]),
                     Temp(sorted[upper]), Duty(sorted[upper]), t)}

\* interpolate_profile; ups is the set of temperatures whose half-way
\* value comes out rounded up.
InterpolateProfile(profile, ups) ==
    LET sorted == SortByTemp(profile)
        badAt == FirstAt({k \in DOMAIN sorted :
                              \/ Temp(sorted[k]) < MIN_CURVE_TEMP
                              \/ Temp(sorted[k]) > CRITICAL_TEMPERATURE})
    IN  IF profile = <<>> THEN Err("InvalidProfile", <<>>)
        ELSE IF badAt # 0 THEN Err("InvalidTemperature", <<Temp(sorted[badAt])>>)
        ELSE Ok([i \in 0 .. (CURVE_POINTS - 1) |->
                    ProfileDutyAt(sorted, MIN_CURVE_TEMP + i, (MIN_CURVE_TEMP + i) \in ups)])

\* Arguments explored.
MaxProfileLen == 3
ProfileTemps == {19, 20, 26, 59, 60}
ProfileDuties == {10, 25, 101}
ProfilePoints == {<<t, d>> : t \in ProfileTemps, d \in ProfileDuties}
RECURSIVE SeqsUpTo(_, _)
SeqsUpTo(S, n) ==
    IF n = 0 THEN {<<>>}
    ELSE LET shorter == SeqsUpTo(S, n - 1)
         IN  shorter \cup {Append(q, x) : q \in {r \in shorter : Len(r) = n - 1}, x \in S}
Profiles == SeqsUpTo(ProfilePoints, MaxProfileLen)
Brightnesses == {0, 100, 101, 255}
Orientations == {0, 3, 4, 255}

\* A 64-byte report starting with the given bytes, zero after them.
Report(bytes) ==
    [k \in 1 .. HID_REPORT_LENGTH |-> IF k <= Len(bytes) THEN bytes[k] ELSE 0]
CMD_LCD_INFO == <<48, 1>>
CMD_SET_LCD_CONFIG_HEADER == <<48, 2, 1>>

\* What a control call leaves behind: the frames it wrote and its result.
Done(name, args, wire, ret) ==
    /\ opName' = name
    /\ opArgs' = args
    /\ opWire' = wire
    /\ opRet' = ret
    /\ UNCHANGED <<mgrVars, devVars, upVars, envVars, sessVars, loopVars, queryVars>>

\* self.write(&cmd) as the last statement of a call.
WriteRet(ok) == IF ok THEN Ok(<<>>) ELSE Err("HidError", <<>>)

\* set_pump_speed / set_fan_speed
FixedSpeed(name, ch) ==
    \E duty \in U8, ok \in BOOLEAN :
        LET cmd == BuildFixedSpeedCmd(ch, duty)
        IN  IF cmd.kind # "Ok"
            THEN Done(name, <<duty>>, <<>>, cmd)
            ELSE Done(name, <<duty>>, <<cmd.val>>, WriteRet(ok))

SetPumpSpeed ==
    /\ opName = "none"
    /\ FixedSpeed("set_pump_speed", "Pump")

SetFanSpeed ==
    /\ opName = "none"
    /\ FixedSpeed("set_fan_speed", "Fan")

\* set_speed_profile: `for &duty in &duties { channel.validate_duty(duty)?; }`
SetSpeedProfile ==
    /\ opName = "none"
    /\ \E ch \in Channels, profile \in Profiles, ok \in BOOLEAN :
           \E ups \in SUBSET TieTemps(SortByTemp(profile)) :
               LET duties == InterpolateProfile(profile, ups)
                   bad == {i \in 0 .. (CURVE_POINTS - 1) :
                               ValidateDuty(ch, duties.val[i]).kind # "Ok"}
               IN  IF duties.kind # "Ok"
                   THEN Done("set_speed_profile", <<ch, profile>>, <<>>, duties)
                   ELSE IF bad # {}
                   THEN Done("set_speed_profile", <<ch, profile>>, <<>>,
                             ValidateDuty(ch, duties.val[MinOf(bad)]))
                   ELSE Done("set_speed_profile", <<ch, profile>>,
                             <<BuildSpeedProfileCmd(ch, duties.val)>>, WriteRet(ok))

\* set_lcd_config as [wire, ret]
LcdConfig(brightness, orientation, ok) ==
    IF brightness > 100 THEN [wire |-> <<>>, ret |-> Err("InvalidInput", <<"brightness">>)]
    ELSE IF orientation > 3 THEN [wire |-> <<>>, ret |-> Err("InvalidInput", <<"orientation">>)]
    ELSE [wire |-> <<Report(CMD_SET_LCD_CONFIG_HEADER \o <<brightness, 0, 0, 1, orientation>>)>>,
          ret |-> WriteRet(ok)]

SetLcdConfig ==
    /\ opName = "none"
    /\ \E brightness \in Brightnesses, orientation \in Orientations, ok \in BOOLEAN :
           LET c == LcdConfig(brightness, orientation, ok)
           IN  Done("set_lcd_config", <<brightness, orientation>>, c.wire, c.ret)

\* get_lcd_info: the CMD_LCD_INFO write, then up to READ_TRIES reads for a
\* 0x31 0x01 frame; its outcomes are a failed write, a failed read, no such
\* frame in time, or the (brightness, orientation) the device reported.
LcdInfoOutcomes ==
    {Err("HidError", <<>>), Err("Timeout", <<>>)}
        \cup {Ok(<<b, o>>) : b \in {50, 101}, o \in {0, 3}}

\* set_brightness / set_orientation: get_lcd_info()?, then set_lcd_config
\* with the other setting as the device reported it.
ViaLcdInfo(name, arg, info, brightness, orientation, ok) ==
    IF info.kind # "Ok"
    THEN Done(name, <<arg>>, <<Report(CMD_LCD_INFO)>>, info)
    ELSE LET c == LcdConfig(brightness, orientation, ok)
         IN  Done(name, <<arg>>, <<Report(CMD_LCD_INFO)>> \o c.wire, c.ret)

SetBrightness ==
    /\ opName = "none"
    /\ \E brightness \in Brightnesses, info \in LcdInfoOutcomes, ok \in BOOLEAN :
           ViaLcdInfo("set_brightness", brightness, info,
                      brightness, IF info.kind = "Ok" THEN info.val[2] ELSE 0, ok)

SetOrientation ==
    /\ opName = "none"
    /\ \E orientation \in Orientations, info \in LcdInfoOutcomes, ok \in BOOLEAN :
           ViaLcdInfo("set_orientation", orientation, info,
                      IF info.kind = "Ok" THEN info.val[1] ELSE 0, orientation, ok)

\* The functions applied on their own, to arguments drawn from the sets above.
ValidateDutyCall ==
    /\ opName = "none"
    /\ \E ch \in Channels, duty \in U8 :
        Done("validate_duty", <<ch, duty>>, <<>>, ValidateDuty(ch, duty))

BuildFixedSpeedCall ==
    /\ opName = "none"
    /\ \E ch \in Channels, duty \in U8 :
        Done("build_fixed_speed_cmd", <<ch, duty>>, <<>>, BuildFixedSpeedCmd(ch, duty))

InterpolateProfileCall ==
    /\ opName = "none"
    /\ \E profile \in Profiles :
        \E ups \in SUBSET TieTemps(SortByTemp(profile)) :
            Done("interpolate_profile", <<profile>>, <<>>, InterpolateProfile(profile, ups))

\* interpolate_duty after the sort: clamp at both ends, else the first
\* window of neighbours that holds temp.  A window of two equal
\* temperatures would divide 0.0 by 0.0 and `NaN as u8` is 0.
InterpolateSorted(sorted, temp, up) ==
    LET last == sorted[Len(sorted)]
        hits == {k \in 1 .. (Len(sorted) - 1) :
                    temp >= Temp(sorted[k]) /\ temp <= Temp(sorted[k + 1])}
        w == MinOf(hits)
    IN  IF temp <= Temp(sorted[1]) THEN Duty(sorted[1])
        ELSE IF temp >= Temp(last) THEN Duty(last)
        ELSE IF hits = {} THEN 50
        ELSE IF Temp(sorted[w]) = Temp(sorted[w + 1]) THEN 0
        ELSE Lerp(Temp(sorted[w]), Duty(sorted[w]),
                  Temp(sorted[w + 1]), Duty(sorted[w + 1]), temp, up)

\* Mutant: the curve is used in the order given.
InterpolateDutyUnsorted(curve, temp, up) ==
    IF curve = <<>> THEN 50 ELSE InterpolateSorted(curve, temp, up)

\* interpolate_duty
InterpolateDuty(curve, temp, up) ==
    IF curve = <<>> THEN 50 ELSE InterpolateSorted(SortByTemp(curve), temp, up)

\* Curves and temperatures explored.
CurveTemps == {20, 40, 60}
CurveDuties == {25, 50, 100}
CurvePoints == {<<t, d>> : t \in CurveTemps, d \in CurveDuties}
Curves == SeqsUpTo(CurvePoints, MaxProfileLen)
QueryTemps == {0, 20, 22, 30, 40, 59, 60, 61, 255}

InterpolateDutyCall ==
    /\ opName = "none"
    /\ \E curve \in Curves, temp \in QueryTemps, up \in BOOLEAN :
        Done("interpolate_duty", <<curve, temp>>, <<>>, Ok(InterpolateDuty(curve, temp, up)))

\* DeviceStatus::parse on a slice of any length: `if buf.len() < 25`.
ParseSlice(buf) ==
    IF Len(buf) < FrameLen
    THEN ErrResult("InvalidResponse", "too short")
    ELSE Parse(buf)

ShortBuffers == {<<>>, RESP_STATUS, SubSeq(MkFrame(117, 1, 32, 5), 1, FrameLen - 1)}

ParseCall ==
    /\ opName = "none"
    /\ \E buf \in Frames \cup ShortBuffers :
        Done("parse", <<buf>>, <<>>, ParseSlice(buf))

(***************************************************************************)
(* Initial states                                                          *)
(***************************************************************************)
UploadIdle ==
    /\ upPc = "idle"
    /\ upIdx = None
    /\ upLen = 0
    /\ buckets = <<>>
    /\ memStart = 0
    /\ upLog = <<>>
    /\ upResult = "none"
    /\ display = <<>>

ManagerNew ==
    /\ occupied = NewManager.occupied
    /\ queue = NewManager.queue
    /\ acqRet = None
    /\ acqDeletes = <<>>
    /\ acqRun = <<>>
    /\ releases = 0

\* BucketManager::new() on its own.
InitNew ==
    /\ ManagerNew
    /\ UploadIdle
    /\ SessionIdle(0)
    /\ OpIdle
    /\ LoopIdle
    /\ QueryIdle
    /\ dev = ClearedDevice
    /\ callsLeft = 0
    /\ faultsLeft = 0

\* BucketManager::from_device() on its own.
InitFromDevice ==
    \E exists \in DeviceSeeds :
        /\ occupied = FromDevice(exists).occupied
        /\ queue = FromDevice(exists).queue
        /\ acqRet = None
        /\ acqDeletes = <<>>
        /\ acqRun = IF exists = {} THEN <<>> ELSE Untracked
        /\ releases = 0
        /\ UploadIdle
        /\ SessionIdle(0)
        /\ OpIdle
        /\ LoopIdle
        /\ QueryIdle
        /\ dev = ClearedDevice
        /\ callsLeft = 0
        /\ faultsLeft = 0

Init == InitNew \/ InitFromDevice

(***************************************************************************)
(* Bucket manager operations                                               *)
(***************************************************************************)
\* acquire(): the manager's part, r the outcome AcquireOf computes.
MgrAcquire(r) ==
    /\ occupied' = r.occupied
    /\ queue' = r.queue
    /\ acqRet' = r.ret
    /\ acqDeletes' = r.deletes
    /\ acqRun' = IF acqRun # Untracked /\ Len(acqRun) <= HIGH_WATER_MARK
                 THEN Append(acqRun, r.ret)
                 ELSE Untracked
    /\ UNCHANGED releases

Acquire ==
    /\ MgrAcquire(AcquireOf(occupied, queue))
    /\ UNCHANGED <<devVars, upVars, envVars, sessVars, opVars, loopVars, queryVars>>

Release ==
    /\ releases < MaxReleases
    /\ \E idx \in ReleaseArgs :
        LET r == ReleaseOf(occupied, queue, idx)
        IN  /\ occupied' = r.occupied
            /\ queue' = r.queue
    /\ releases' = releases + 1
    /\ acqRun' = Untracked
    /\ acqRet' = None
    /\ acqDeletes' = <<>>
    /\ UNCHANGED <<devVars, upVars, envVars, sessVars, opVars, loopVars, queryVars>>

Clear ==
    /\ occupied' = EmptyTable
    /\ queue' = <<>>
    /\ acqRun' = <<>>
    /\ acqRet' = None
    /\ acqDeletes' = <<>>
    /\ UNCHANGED <<releases, devVars, upVars, envVars, sessVars, opVars, loopVars, queryVars>>

Next == Acquire \/ Release \/ Clear

Spec == Init /\ [][Next]_vars

SpecNew == InitNew /\ [][Next]_vars

(***************************************************************************)
(* upload_image_bulk                                                       *)
(***************************************************************************)
\* Little-endian halves of a u16 field, and the value the device reads back.
Lo(x) == x % 256
Hi(x) == (x \div 256) % 256
LE16(lo, hi) == lo + 256 * hi

\* Whether the next transport call succeeds: a failure takes one fault.
Outcomes == IF faultsLeft > 0 THEN {TRUE, FALSE} ELSE {TRUE}
Fault(ok) == faultsLeft' = IF ok THEN faultsLeft ELSE faultsLeft - 1

\* wait_for_response: the expected frame, no such frame within the 10 reads
\* (Timeout), or a failed read.
AckOutcomes == IF faultsLeft > 0 THEN {"ack", "timeout", "readErr"} ELSE {"ack"}

Issue(ph, arg, ok) == upLog' = Append(upLog, [ph |-> ph, arg |-> arg, ok |-> ok])

\* Mutant: the error of a write is dropped and the upload goes on.
FatalIgnoresError(ok, next) ==
    /\ upPc' = next
    /\ upResult' = "none"

\* A write whose error is returned with `?`.
Fatal(ok, next) ==
    /\ upPc' = IF ok THEN next ELSE "idle"
    /\ upResult' = IF ok THEN "none" ELSE "err"

\* Entry of upload_image_bulk: BulkDevice::open(), then the page count.
UploadBegin(idx, len) ==
    /\ callsLeft > 0
    /\ callsLeft' = callsLeft - 1
    /\ upIdx' = idx
    /\ upLen' = len
    /\ buckets' = <<>>
    /\ memStart' = 0
    /\ upLog' = <<>>
    /\ \E ok \in Outcomes :
        /\ Fault(ok)
        /\ Fatal(ok, "handshake")
    /\ UNCHANGED <<opVars, loopVars, queryVars, sessVars, mgrVars, devVars>>

\* Slots and data lengths of the uploads explored on their own.
UploadTargets == {0, 1, 15}
DataLens == {1004, IMAGE_SIZE_RGBA}

UploadAny ==
    /\ upPc = "idle"
    /\ \E idx \in UploadTargets, len \in DataLens : UploadBegin(idx, len)

\* Step 1: self.write(&[0x36, 0x03])?
Handshake ==
    /\ upPc = "handshake"
    /\ \E ok \in Outcomes :
        /\ Issue("Handshake", <<>>, ok)
        /\ Fault(ok)
        /\ Fatal(ok, "query")
    /\ UNCHANGED <<opVars, loopVars, queryVars, sessVars, mgrVars, devVars, upIdx, upLen, buckets, memStart, callsLeft>>

\* Outcomes of query_all_buckets: an error at slot err (write or read
\* failed), or a table in which the slots of `silent` went unanswered.
QueryOutcomes ==
    {[err |-> None, silent |-> {}]}
    \cup (IF faultsLeft > 0
          THEN {[err |-> k, silent |-> {}] : k \in Indices}
               \cup {[err |-> None, silent |-> sl] :
                        sl \in {x \in SUBSET Indices :
                                   Cardinality(x) \in 1 .. faultsLeft}}
          ELSE {})

\* Builds the overflow of a u16 sum can end in.
PlanBuilds(bk, target, needed) ==
    IF CalcOverflows(bk, target, needed) THEN {"wrapping", "checked"} ELSE {"wrapping"}

\* Step 2: query_all_buckets()?, then calculate_memory_offset(..)?
QueryPlan ==
    /\ upPc = "query"
    /\ \E q \in QueryOutcomes :
        LET n == IF q.err = None THEN MAX_BUCKETS ELSE q.err + 1
            bk == QueryAll(dev, MAX_BUCKETS, q.silent)
        IN  /\ Issue("Query", [k \in 1 .. n |-> k - 1], q.err = None)
            /\ faultsLeft' = IF q.err = None THEN faultsLeft - Cardinality(q.silent)
                             ELSE faultsLeft - 1
            /\ IF q.err # None
               THEN /\ upPc' = "idle"
                    /\ upResult' = "err"
                    /\ UNCHANGED <<buckets, memStart>>
               ELSE \E build \in PlanBuilds(bk, upIdx, PageCount(upLen)) :
                    /\ buckets' = bk
                    /\ memStart' = CalcOffset(bk, upIdx, PageCount(upLen))
                    /\ upPc' = IF build = "checked" THEN "idle" ELSE "delete"
                    /\ upResult' = IF build = "checked" THEN "panic" ELSE "none"
    /\ UNCHANGED <<opVars, loopVars, queryVars, sessVars, mgrVars, devVars, upIdx, upLen, callsLeft>>

\* Step 3: let _ = self.delete_bucket(bucket_index)
DeleteTarget ==
    /\ upPc = "delete"
    /\ \E ok \in Outcomes :
        /\ Issue("Delete", <<upIdx>>, ok)
        /\ Fault(ok)
        /\ dev' = IF ok THEN DevDelete(dev, upIdx) ELSE dev
    /\ upPc' = "setup"
    /\ UNCHANGED <<opVars, loopVars, queryVars, sessVars, mgrVars, display, upIdx, upLen, buckets, memStart, upResult, callsLeft>>

\* The bytes 2..8 of setup_cmd.
SetupArgs(idx, start, pages) ==
    <<idx, (idx + 1) % 256, Lo(start), Hi(start), Lo(pages), Hi(pages), 1>>

\* Step 4: self.write(&setup_cmd)?
Setup ==
    /\ upPc = "setup"
    /\ \E ok \in Outcomes :
        LET a == SetupArgs(upIdx, memStart, PageCount(upLen))
        IN  /\ Issue("Setup", a, ok)
            /\ Fault(ok)
            /\ Fatal(ok, "setupAck")
            /\ dev' = IF ok THEN DevSetup(dev, a[1], LE16(a[3], a[4]), LE16(a[5], a[6]))
                      ELSE dev
    /\ UNCHANGED <<opVars, loopVars, queryVars, sessVars, mgrVars, display, upIdx, upLen, buckets, memStart, callsLeft>>

\* Mutant: the result of the wait is returned with `?`.
AwaitAckPropagates(here, ph, next) ==
    /\ upPc = here
    /\ \E o \in AckOutcomes :
        /\ Issue(ph, <<o>>, o = "ack")
        /\ Fault(o = "ack")
        /\ upPc' = IF o = "ack" THEN next ELSE "idle"
        /\ upResult' = IF o = "ack" THEN "none" ELSE "err"
    /\ UNCHANGED <<opVars, loopVars, queryVars, sessVars, mgrVars, devVars, upIdx, upLen, buckets, memStart, callsLeft>>

\* let _ = self.wait_for_response(hdr, sub): the result is dropped.
AwaitAck(here, ph, next) ==
    /\ upPc = here
    /\ \E o \in AckOutcomes :
        /\ Issue(ph, <<o>>, o = "ack")
        /\ Fault(o = "ack")
    /\ upPc' = next
    /\ UNCHANGED <<opVars, loopVars, queryVars, sessVars, mgrVars, devVars, upIdx, upLen, buckets, memStart, upResult, callsLeft>>

\* A write on the command or the bulk channel whose error is returned.
FatalWrite(here, ph, arg, next) ==
    /\ upPc = here
    /\ \E ok \in Outcomes :
        /\ Issue(ph, arg, ok)
        /\ Fault(ok)
        /\ Fatal(ok, next)
    /\ UNCHANGED <<opVars, loopVars, queryVars, sessVars, mgrVars, devVars, upIdx, upLen, buckets, memStart, callsLeft>>

\* let _ = self.wait_for_response(0x33, 0x01)
SetupAck == AwaitAck("setupAck", "SetupAck", "bulkStart")

\* Step 5: self.write(&[0x36, 0x01, bucket_index])?
BulkStart == FatalWrite("bulkStart", "BulkStart", <<upIdx>>, "bulkStartAck")

\* Mutant: the bulk header is not sent before the data.
BulkStartAckSkipsHeader == AwaitAck("bulkStartAck", "BulkStartAck", "bulkData")

\* let _ = self.wait_for_response(0x37, 0x01)
BulkStartAck == AwaitAck("bulkStartAck", "BulkStartAck", "bulkHeader")

\* Step 6, upload_asset: self.write_bulk(&header)?; the header carries the
\* length `size as u32`, which is the length itself for the lengths explored.
BulkHeader == FatalWrite("bulkHeader", "BulkHeader", <<upLen>>, "bulkData")

\* Step 6, upload_asset: self.write_bulk(data)?
BulkData == FatalWrite("bulkData", "BulkData", <<upLen>>, "bulkEnd")

\* Step 7: self.write(&[0x36, 0x02])?
BulkEnd == FatalWrite("bulkEnd", "BulkEnd", <<>>, "bulkEndAck")

\* let _ = self.wait_for_response(0x37, 0x02)
BulkEndAck == AwaitAck("bulkEndAck", "BulkEndAck", "activate")

\* Step 8: self.set_visual_mode(4, bucket_index)?, then Ok(())
Activate ==
    /\ upPc = "activate"
    /\ \E ok \in Outcomes :
        /\ Issue("Activate", <<4, upIdx>>, ok)
        /\ Fault(ok)
        /\ upResult' = IF ok THEN "ok" ELSE "err"
        /\ display' = IF ok THEN <<4, upIdx>> ELSE display
    /\ upPc' = "idle"
    /\ UNCHANGED <<opVars, loopVars, queryVars, sessVars, mgrVars, dev, upIdx, upLen, buckets, memStart, callsLeft>>

UploadStep ==
    \/ Handshake
    \/ QueryPlan
    \/ DeleteTarget
    \/ Setup
    \/ SetupAck
    \/ BulkStart
    \/ BulkStartAck
    \/ BulkHeader
    \/ BulkData
    \/ BulkEnd
    \/ BulkEndAck
    \/ Activate

\* Device tables an upload on its own starts from.
TableOf(regions) ==
    [i \in Indices |->
        IF \E r \in regions : r[1] = i
        THEN LET r == CHOOSE x \in regions : x[1] = i
             IN  [start |-> r[2], size |-> r[3]]
        ELSE Absent]

DeviceTables ==
    {TableOf({}),
     TableOf({<<0, 0, 100>>}),
     TableOf({<<0, 0, 401>>, <<1, 401, 401>>}),
     TableOf({<<2, 500, 401>>}),
     TableOf({<<3, 0, 24000>>})}

InitUpload ==
    /\ ManagerNew
    /\ UploadIdle
    /\ SessionIdle(0)
    /\ OpIdle
    /\ LoopIdle
    /\ QueryIdle
    /\ dev \in DeviceTables
    /\ callsLeft = MaxUploads
    /\ faultsLeft = MaxFaults

NextUpload == UploadAny \/ UploadStep

SpecUpload == InitUpload /\ [][NextUpload]_vars

(***************************************************************************)
(* The monitor loop: acquire a slot, upload a frame to it                  *)
(***************************************************************************)
\* The device after the delete commands of acquire(), `failed` the
\* positions of the writes that failed (their result is dropped).
AfterDeletes(d, deletes, failed) ==
    [i \in Indices |->
        IF \E k \in (1 .. Len(deletes)) \ failed : deletes[k] = i THEN Absent ELSE d[i]]

\* main.rs: let bucket_idx = bucket_manager.acquire(&kraken)
CycleAcquire ==
    /\ upPc = "idle"
    /\ callsLeft > 0
    /\ LET r == AcquireOf(occupied, queue)
       IN  /\ MgrAcquire(r)
           /\ \E failed \in {x \in SUBSET (1 .. Len(r.deletes)) :
                                Cardinality(x) <= faultsLeft} :
                /\ dev' = AfterDeletes(dev, r.deletes, failed)
                /\ faultsLeft' = faultsLeft - Cardinality(failed)
    /\ upPc' = "acquired"
    /\ UNCHANGED <<display, upIdx, upLen, buckets, memStart, upLog, upResult, callsLeft>>
    /\ UNCHANGED <<sessVars, opVars, loopVars, queryVars>>

\* main.rs: kraken.upload_image_bulk(bucket_idx, &image_data, 0x02)
CycleUpload ==
    /\ upPc = "acquired"
    /\ UploadBegin(acqRet, IMAGE_SIZE_RGBA)

\* delete_all_buckets(), then BucketManager::new().
InitCycle ==
    /\ ManagerNew
    /\ UploadIdle
    /\ SessionIdle(0)
    /\ OpIdle
    /\ LoopIdle
    /\ QueryIdle
    /\ dev = ClearedDevice
    /\ callsLeft = MaxCycles
    /\ faultsLeft = CycleFaults

NextCycle == CycleAcquire \/ CycleUpload \/ UploadStep

SpecCycle == InitCycle /\ [][NextCycle]_vars

\* The monitor loop on a device that answers every query and on which no
\* write or read fails.
InitMonitor ==
    /\ ManagerNew
    /\ UploadIdle
    /\ SessionIdle(0)
    /\ OpIdle
    /\ LoopIdle
    /\ QueryIdle
    /\ dev = ClearedDevice
    /\ callsLeft = MaxCycles
    /\ faultsLeft = 0

SpecMonitor == InitMonitor /\ [][NextCycle]_vars

(***************************************************************************)
(* The session on its own: KrakenZ63::open(), then calls                   *)
(***************************************************************************)
InitSession ==
    /\ ManagerNew
    /\ UploadIdle
    /\ SessionIdle(MaxSessionCalls)
    /\ OpIdle
    /\ LoopIdle
    /\ QueryIdle
    /\ dev = ClearedDevice
    /\ callsLeft = 0
    /\ faultsLeft = 0

NextSession ==
    \/ InitializeCall
    \/ GetStatusCall
    \/ Drain
    \/ RequestFirmware
    \/ RequestStatus
    \/ PollFirmware
    \/ PollStatus
    \/ WriteLedInfo
    \/ WriteInterval
    \/ WriteComplete

SpecSession == InitSession /\ [][NextSession]_vars

\* The calls keep running: a call that can take a step takes one.
SpecSessionFair == SpecSession /\ WF_vars(NextSession)

(***************************************************************************)
(* The command loops: monitor, lcd-monitor, cooling-daemon and start       *)
(***************************************************************************)
MaxIterations == 2

\* start runs with a bucket manager (radial mode) or without one.
LoopKinds == {"monitor", "lcd_monitor", "cooling_daemon", "start_radial", "start_static"}

\* The command has returned: Ok(()) after the loop, or Err by a `?`.
LoopEnded == {"stopped", "failed"}

NotLoop == <<mgrVars, devVars, upVars, envVars, opVars, queryVars>>

LoopStays == <<running, loopKind, cycle_count, NotLoop, sessVars>>

\* The first device call in the body of the loop.
FirstStep(kind) ==
    IF kind = "monitor" THEN "set_host_info"
    ELSE IF kind = "lcd_monitor" THEN "acquire"
    ELSE "get_status"

\* Where the body goes on when get_status() returned.
AfterStatus(kind, ok) ==
    IF kind = "monitor" THEN "sleep"
    ELSE IF kind = "lcd_monitor" THEN (IF ok THEN "render" ELSE "sleep")
    ELSE IF kind = "cooling_daemon" THEN (IF ok THEN "set_pump_speed" ELSE "failed")
    ELSE (IF ok THEN "set_pump_speed" ELSE "sleep")

\* Where the body goes on when the write at `pc` returned.
AfterWrite(kind, pc, ok) ==
    IF pc = "set_host_info" THEN "get_status"
    ELSE IF kind = "cooling_daemon" /\ ~ok THEN "failed"
    ELSE IF pc = "set_pump_speed" THEN "set_fan_speed"
    ELSE IF kind = "start_radial" THEN "acquire"
    ELSE "sleep"

\* What generating, saving and loading the gauge image can come to.
RenderOutcomes == {"no_image", "save_failed", "load_failed", "loaded"}

AfterRender(kind, r) ==
    IF r = "loaded" THEN "upload"
    ELSE IF kind = "lcd_monitor" /\ r = "save_failed" THEN "head"
    ELSE "sleep"

\* ctrlc::set_handler(move || r.store(false, Ordering::SeqCst)), run on Ctrl+C
\* once the handler is installed.
CtrlC ==
    /\ loopKind # "none"
    /\ loopPc \notin LoopEnded \cup {"initialize"}
    /\ running
    /\ running' = FALSE
    /\ UNCHANGED <<loopKind, loopPc, cycle_count, NotLoop, sessVars>>

\* kraken.initialize().context(..)? before the loop: the call starts.
LoopInitialize ==
    /\ loopPc = "initialize"
    /\ InitializeCall

\* kraken.initialize().context(..)?: the call has returned.
LoopInitialized ==
    /\ loopPc = "initialize"
    /\ sPc = "idle"
    /\ sCallsLeft = 0
    /\ loopPc' = IF sResult.kind = "Ok" THEN "head" ELSE "failed"
    /\ UNCHANGED LoopStays

\* while running.load(Ordering::SeqCst) { cycle_count += 1; ..
LoopHead ==
    /\ loopPc = "head"
    /\ IF running
       THEN /\ cycle_count < MaxIterations
            /\ cycle_count' = cycle_count + 1
            /\ loopPc' = FirstStep(loopKind)
       ELSE /\ cycle_count' = cycle_count
            /\ loopPc' = "stopped"
    /\ UNCHANGED <<running, loopKind, NotLoop, sessVars>>

\* The body reaches kraken.get_status().
LoopStatusBegin ==
    /\ loopPc = "get_status"
    /\ loopPc' = "in_get_status"
    /\ sCallsLeft' = 1
    /\ UNCHANGED <<firmware, sCall, sPc, sBuf, sReads, sFw, sLog, sResult, sFirst,
                   initialized>>
    /\ UNCHANGED <<running, loopKind, cycle_count, NotLoop>>

\* kraken.get_status(): the call starts.
LoopGetStatus ==
    /\ loopPc = "in_get_status"
    /\ GetStatusCall

\* kraken.get_status() has returned: `match`, `?` or `continue` on its result.
LoopStatusEnd ==
    /\ loopPc = "in_get_status"
    /\ sPc = "idle"
    /\ sCallsLeft = 0
    /\ loopPc' = AfterStatus(loopKind, sResult.kind = "Ok")
    /\ UNCHANGED LoopStays

\* set_host_info, set_pump_speed, set_fan_speed: the result is dropped
\* (`let _ =`) or, in the cooling daemon, propagated with `?`.
LoopWrite ==
    /\ loopPc \in {"set_host_info", "set_pump_speed", "set_fan_speed"}
    /\ \E ok \in BOOLEAN : loopPc' = AfterWrite(loopKind, loopPc, ok)
    /\ UNCHANGED LoopStays

\* let bucket_idx = bucket_manager.acquire(&kraken)
LoopAcquire ==
    /\ loopPc = "acquire"
    /\ loopPc' = IF loopKind = "lcd_monitor" THEN "get_status" ELSE "render"
    /\ UNCHANGED LoopStays

\* generate_radial_stats_image, img.save, load_image
LoopRender ==
    /\ loopPc = "render"
    /\ \E r \in RenderOutcomes : loopPc' = AfterRender(loopKind, r)
    /\ UNCHANGED LoopStays

\* kraken.upload_image_bulk(bucket_idx, &image_data, 0x02): an error is
\* printed or dropped.
LoopUpload ==
    /\ loopPc = "upload"
    /\ loopPc' = "sleep"
    /\ UNCHANGED LoopStays

\* std::thread::sleep(Duration::from_secs(interval)) at the end of the body.
LoopSleep ==
    /\ loopPc = "sleep"
    /\ loopPc' = "head"
    /\ UNCHANGED LoopStays

\* KrakenZ63::open() has succeeded and the command is about to initialize.
InitLoops ==
    /\ ManagerNew
    /\ UploadIdle
    /\ SessionIdle(1)
    /\ OpIdle
    /\ dev = ClearedDevice
    /\ callsLeft = 0
    /\ faultsLeft = 0
    /\ running = TRUE
    /\ loopKind \in LoopKinds
    /\ loopPc = "initialize"
    /\ cycle_count = 0
    /\ QueryIdle

\* The steps of the command's own thread.
LoopSteps ==
    \/ LoopInitialize
    \/ LoopInitialized
    \/ LoopHead
    \/ LoopStatusBegin
    \/ LoopGetStatus
    \/ LoopStatusEnd
    \/ LoopWrite
    \/ LoopAcquire
    \/ LoopRender
    \/ LoopUpload
    \/ LoopSleep
    \/ Drain
    \/ RequestFirmware
    \/ RequestStatus
    \/ PollFirmware
    \/ PollStatus
    \/ WriteLedInfo
    \/ WriteInterval
    \/ WriteComplete

NextLoops == CtrlC \/ LoopSteps

SpecLoops == InitLoops /\ [][NextLoops]_vars

\* The command's thread keeps running; Ctrl+C may never come.
SpecLoopsFair == SpecLoops /\ WF_vars(LoopSteps)

(***************************************************************************)
(* query_all_buckets, read by read                                         *)
(***************************************************************************)
\* Responses that come late or never and reads or writes that fail,
\* explored in one call.
MaxQueryFaults == 2

\* What becomes of a query written for slot i: the write fails; the device
\* answers at once; it answers after the 10 reads of the query are used up;
\* it does not answer.
QueryFates == {"fail", "prompt", "late", "lost"}

NotQuery == <<mgrVars, devVars, upVars, callsLeft, sessVars, opVars, loopVars>>

\* query_bucket returns: buckets.push((i, exists, start_page, size_pages)),
\* then the next i of `for i in 0..16`.
QueryPush(entry, src) ==
    /\ qOut' = Append(qOut, entry)
    /\ qSrc' = Append(qSrc, src)
    /\ qReads' = 0
    /\ IF qIdx + 1 = MAX_BUCKETS
       THEN qPc' = "done" /\ qIdx' = qIdx
       ELSE qPc' = "write" /\ qIdx' = qIdx + 1

\* query_bucket: self.write(&[0x30, 0x04, index])?
QueryWrite ==
    /\ qPc = "write"
    /\ \E fate \in QueryFates :
        /\ fate # "prompt" => faultsLeft > 0
        /\ faultsLeft' = IF fate = "prompt" THEN faultsLeft ELSE faultsLeft - 1
        /\ qPc' = IF fate = "fail" THEN "failed" ELSE "read"
        /\ qWire' = IF fate = "prompt" THEN Append(qWire, [src |-> qIdx, due |-> qIdx])
                    ELSE IF fate = "late" THEN Append(qWire, [src |-> qIdx, due |-> qIdx + 1])
                    ELSE qWire
    /\ UNCHANGED <<qIdx, qReads, qOut, qSrc, NotQuery>>

\* One iteration of `for _ in 0..10`: read_timeout(&mut buf, 100)?, then
\* `read == 0` or `buf[0] == 0x31 && buf[1] == 0x04`; the slot the frame
\* answers is not looked at.
QueryRead ==
    /\ qPc = "read"
    /\ \E ok \in BOOLEAN :
        /\ ~ok => faultsLeft > 0
        /\ faultsLeft' = IF ok THEN faultsLeft ELSE faultsLeft - 1
        /\ IF ~ok
           THEN /\ qPc' = "failed"
                /\ UNCHANGED <<qIdx, qReads, qWire, qOut, qSrc>>
           ELSE IF qWire # <<>> /\ Head(qWire).due <= qIdx
           THEN /\ qWire' = Tail(qWire)
                /\ QueryPush([QueryBucket(dev, Head(qWire).src, TRUE) EXCEPT !.idx = qIdx],
                             Head(qWire).src)
           ELSE IF qReads + 1 = READ_TRIES
           THEN /\ qWire' = qWire
                /\ QueryPush(QueryBucket(dev, qIdx, FALSE), None)
           ELSE /\ qReads' = qReads + 1
                /\ UNCHANGED <<qPc, qIdx, qWire, qOut, qSrc>>
    /\ UNCHANGED NotQuery

\* A call of query_all_buckets on a device holding some buckets.
InitQuery ==
    /\ ManagerNew
    /\ UploadIdle
    /\ SessionIdle(0)
    /\ OpIdle
    /\ LoopIdle
    /\ dev \in DeviceTables
    /\ callsLeft = 0
    /\ faultsLeft = MaxQueryFaults
    /\ qPc = "write"
    /\ qIdx = 0
    /\ qReads = 0
    /\ qWire = <<>>
    /\ qOut = <<>>
    /\ qSrc = <<>>

NextQuery == QueryWrite \/ QueryRead

SpecQuery == InitQuery /\ [][NextQuery]_vars

(***************************************************************************)
(* The control calls of an opened device, one call per behaviour           *)
(***************************************************************************)
InitControl ==
    /\ ManagerNew
    /\ UploadIdle
    /\ SessionIdle(0)
    /\ OpIdle
    /\ LoopIdle
    /\ QueryIdle
    /\ dev = ClearedDevice
    /\ callsLeft = 0
    /\ faultsLeft = 0

NextControl ==
    \/ SetPumpSpeed
    \/ SetFanSpeed
    \/ SetSpeedProfile
    \/ SetLcdConfig
    \/ SetBrightness
    \/ SetOrientation

SpecControl == InitControl /\ [][NextControl]_vars

(***************************************************************************)
(* The protocol and planning functions applied to explored arguments       *)
(***************************************************************************)
\* Bucket tables, targets and page counts the planner is applied to.
PlanDevices ==
    DeviceTables \cup
        {TableOf({<<i, st, sz>>}) : i \in {0, 3, 15}, st \in {0, 500, 23900}, sz \in {100, 401}}
PlanTargets == {0, 3, 15}
PlanSizes == {0, 1, 50, 401, 402, 24320, 24321, 65535}

CalcOffsetCall ==
    /\ opName = "none"
    /\ \E d \in PlanDevices, target \in PlanTargets, needed \in PlanSizes :
        LET bk == QueryAll(d, MAX_BUCKETS, {})
        IN  \E build \in PlanBuilds(bk, target, needed) :
                Done("calculate_memory_offset", <<bk, target, needed>>, <<>>,
                     IF build = "checked" THEN Err("panic", <<>>)
                     ELSE Ok(CalcOffset(bk, target, needed)))

NextFunctions ==
    \/ ValidateDutyCall
    \/ BuildFixedSpeedCall
    \/ InterpolateProfileCall
    \/ InterpolateDutyCall
    \/ ParseCall
    \/ CalcOffsetCall

SpecFunctions == InitControl /\ [][NextFunctions]_vars

(***************************************************************************)
(* Properties of the bucket manager                                        *)
(***************************************************************************)
InQueue(i) == \E k \in 1 .. Len(queue) : queue[k] = i

\* C1: an index is in the arrival-order queue exactly when its occupancy
\* flag is set, the queue holds no index twice and at most 16 entries, so
\* occupied_count() equals the queue length.
C1_QueueMirrorsTable ==
    /\ \A i \in Indices : occupied[i] <=> InQueue(i)
    /\ \A k, l \in 1 .. Len(queue) : k # l => queue[k] # queue[l]
    /\ Len(queue) <= 16
    /\ OccupiedCount(occupied) = Len(queue)

\* C1 witness: an eviction on a manager seeded with all 16 slots occupied,
\* after a release.
C1_Witness ==
    /\ releases = 1
    /\ Len(acqDeletes) = 8
    /\ occupied[15]
    /\ Len(queue) >= 5

C4_AtMostHighWater ==
    /\ OccupiedCount(occupied) <= 12
    /\ Len(queue) <= 12
    /\ OccupiedCount(occupied) < 16

\* C4 witness: the mark is reached again after a release.
C4_Witness == OccupiedCount(occupied) = 12 /\ releases = 1 /\ acqRet # None

(***************************************************************************)
(* Properties of the upload cycle                                          *)
(***************************************************************************)
\* Two device buckets that both exist and share a page.
Overlap(a, b) ==
    /\ a.size > 0
    /\ b.size > 0
    /\ a.start < b.start + b.size
    /\ b.start < a.start + a.size

\* C2: between upload cycles (no bucket being replaced) no two occupied
\* device buckets have overlapping page ranges [start, start + size).
C2_NoOverlap ==
    upPc = "idle" =>
        \A i, j \in Indices : i # j => ~Overlap(dev[i], dev[j])

(***************************************************************************)
(* Properties of upload_image_bulk                                         *)
(***************************************************************************)
AckPhases == {"SetupAck", "BulkStartAck", "BulkEndAck"}
CommandOrder ==
    <<"Handshake", "Query", "Delete", "Setup", "BulkStart",
      "BulkHeader", "BulkData", "BulkEnd", "Activate">>
FullOrder ==
    <<"Handshake", "Query", "Delete", "Setup", "SetupAck", "BulkStart",
      "BulkStartAck", "BulkHeader", "BulkData", "BulkEnd", "BulkEndAck", "Activate">>

Names(log) == [k \in 1 .. Len(log) |-> log[k].ph]
Commands(log) == SelectSeq(log, LAMBDA e : e.ph \notin AckPhases)
IsPrefix(a, b) == Len(a) <= Len(b) /\ \A k \in 1 .. Len(a) : a[k] = b[k]

\* The number of 1024-byte pages that hold the data and its 20-byte header.
PagesFor(len) == CHOOSE p \in 0 .. 65535 : p * 1024 >= len + 20 /\ (p - 1) * 1024 < len + 20

\* C5: a successful upload issued exactly Handshake, the query of slots
\* 0..15, Delete of the target, Setup (index, index + 1, offset, pages, 1),
\* Bulk-Start of the target, bulk header, bulk data, Bulk-End and the switch
\* to mode 4 on the target, in this order, each once; in every state the
\* phases issued so far are a prefix of that order.
C5_PhaseOrder ==
    /\ IsPrefix(Names(Commands(upLog)), CommandOrder)
    /\ upResult = "ok" =>
        LET c == Commands(upLog)
        IN  /\ Names(c) = CommandOrder
            /\ c[1].arg = <<>>
            /\ c[2].arg = <<0, 1, 2, 3, 4, 5, 6, 7, 8, 9, 10, 11, 12, 13, 14, 15>>
            /\ c[3].arg = <<upIdx>>
            /\ c[4].arg[1] = upIdx
            /\ c[4].arg[2] = upIdx + 1
            /\ LE16(c[4].arg[3], c[4].arg[4]) = memStart
            /\ memStart = CalcOffset(buckets, upIdx, PagesFor(upLen))
            /\ LE16(c[4].arg[5], c[4].arg[6]) = PagesFor(upLen)
            /\ c[4].arg[7] = 1
            /\ c[5].arg = <<upIdx>>
            /\ c[6].arg = <<upLen>>
            /\ c[7].arg = <<upLen>>
            /\ c[8].arg = <<>>
            /\ c[9].arg = <<4, upIdx>>
            /\ display = <<4, upIdx>>

\* C5 witness: a successful upload to slot 15 placed behind another bucket.
C5_Witness == upResult = "ok" /\ upIdx = 15 /\ memStart > 0 /\ upPc = "idle"

FatalPhases == {"Handshake", "BulkStart", "BulkHeader", "BulkData"}

C6_State ==
    /\ \A k \in 1 .. Len(upLog) :
        (upLog[k].ph \in FatalPhases /\ ~upLog[k].ok) =>
            /\ k = Len(upLog)
            /\ upPc = "idle"
            /\ upResult = "err"
    /\ \A k \in 1 .. Len(upLog) :
        upLog[k].ph = "Activate" =>
            /\ \E j \in 1 .. (k - 1) : upLog[j].ph = "BulkHeader" /\ upLog[j].ok
            /\ \E j \in 1 .. (k - 1) : upLog[j].ph = "BulkData" /\ upLog[j].ok

BulkCompleted(log) ==
    /\ \E j \in 1 .. Len(log) : log[j].ph = "BulkHeader" /\ log[j].ok
    /\ \E j \in 1 .. Len(log) : log[j].ph = "BulkData" /\ log[j].ok

\* C6: a failed Handshake, Bulk-Start, bulk header or bulk data write ends
\* the upload with an error and nothing is issued after it; Activate is only
\* issued, and the display only switched, after the bulk header and data of
\* the same upload went through.
C6_FatalPhasesAbort ==
    /\ []C6_State
    /\ [][display' # display => BulkCompleted(upLog) /\ display' = <<4, upIdx>>]_vars

\* C6 witness: the bulk data transfer failed.
C6_Witness ==
    /\ upResult = "err"
    /\ Len(upLog) > 0
    /\ upLog[Len(upLog)].ph = "BulkData"
    /\ ~upLog[Len(upLog)].ok

ToleratedPhases == AckPhases \cup {"Delete"}

\* C7: a missing or failed acknowledgment after Setup, Bulk-Start or
\* Bulk-End and a failed Delete write never end the upload: it goes on with
\* the next phase, and it returns success with all phases issued in order
\* when every other write and the query succeed.
C7_BestEffortTolerated ==
    /\ \A k \in 1 .. Len(upLog) :
        (upLog[k].ph \in ToleratedPhases /\ ~upLog[k].ok) =>
            \/ k < Len(upLog)
            \/ upPc # "idle" /\ upResult = "none"
    /\ IsPrefix(Names(upLog), FullOrder)
    /\ (/\ upPc = "idle"
        /\ upLog # <<>>
        /\ upResult # "panic"
        /\ \A k \in 1 .. Len(upLog) : upLog[k].ph \notin ToleratedPhases => upLog[k].ok) =>
            /\ upResult = "ok"
            /\ Names(upLog) = FullOrder

\* C7 witness: a successful upload in which a best-effort step failed.
C7_Witness ==
    /\ upResult = "ok"
    /\ \E k \in 1 .. Len(upLog) : upLog[k].ph \in AckPhases /\ ~upLog[k].ok

(***************************************************************************)
(* Session claims                                                          *)
(***************************************************************************)
Written(cmd) == \E k \in 1 .. Len(sLog) : sLog[k] = cmd

\* C8: get_status is served only on a session that initialize() has brought
\* to Initialized; on any other session the call sends no RequestStatus
\* frame and returns NotInitialized.
C8_StatusOnlyWhenInitialized ==
    (sCall = "get_status" /\ ~initialized) =>
        /\ ~Written("RequestStatus")
        /\ sPc = "idle" => sResult.kind = "NotInitialized"

\* C9: once the request is written, get_status does at most READ_TRIES
\* polling reads; it stops at the first frame read that carries a status
\* header and returns the parse of that frame; empty reads, frames with
\* first byte 0x11, 0x21 or 0x33 and other frames each use up one read;
\* and, no read having failed, it returns Timeout exactly when none of
\* READ_TRIES reads gave a frame with a status header.
C9_StatusPolling ==
    sCall = "get_status" =>
        /\ sReads <= READ_TRIES
        /\ sPc = "poll" => sFirst = NoFrame /\ sReads < READ_TRIES
        /\ (sPc = "idle" /\ sReads > 0) =>
            /\ sFirst # NoFrame => sResult = Parse(sFirst) /\ sBuf = sFirst
            /\ sResult.kind = "Ok" => ~Skips(sBuf)
            /\ sResult.kind = "Timeout" => sFirst = NoFrame /\ sReads = READ_TRIES
            /\ (sFirst = NoFrame /\ sResult.kind # "HidError") =>
                   sResult.kind = "Timeout" /\ sReads = READ_TRIES

\* get_status returned the status parsed from the frame of its last
\* allowed read, nine reads having been used up before it.
C9_Witness ==
    /\ sCall = "get_status"
    /\ sPc = "idle"
    /\ sReads = READ_TRIES
    /\ sResult.kind = "Ok"
    /\ sResult = Parse(sFirst)

\* C10: whatever the device sends, a call of initialize() or get_status()
\* that has started returns: every read loop of the call, the drain of
\* stale frames included, ends after a bounded number of reads.
C10_CallsReturn == (sPc # "idle") ~> (sPc = "idle")

\* The bytes the layout selected by the header of f takes the temperature from.
TempBytes(f) ==
    IF Byte(f, 0) = RESP_STATUS[1] /\ Byte(f, 1) = RESP_STATUS[2]
    THEN <<Byte(f, 15), Byte(f, 16)>>
    ELSE <<Byte(f, 2), Byte(f, 3)>>

\* C11: a frame with a status header (primary or alternate) whose
\* temperature bytes are the fault sentinel 0xFF 0xFF makes get_status
\* return InvalidResponse, never a DeviceStatus.
C11_SentinelRejected ==
    (/\ sCall = "get_status"
     /\ sPc = "idle"
     /\ sFirst # NoFrame
     /\ TempBytes(sFirst) = INVALID_TEMP_SENTINEL) =>
        sResult.kind = "InvalidResponse"

(***************************************************************************)
(* Claims about the control calls and the functions behind them            *)
(***************************************************************************)
ValidationErrors == {"InvalidDuty", "InvalidTemperature", "InvalidProfile", "InvalidInput"}

\* The argument of the call made is outside the range the call documents.
ArgOutOfRange ==
    \/ opName = "set_pump_speed" /\ ValidateDuty("Pump", opArgs[1]).kind # "Ok"
    \/ opName = "set_fan_speed" /\ ValidateDuty("Fan", opArgs[1]).kind # "Ok"
    \/ /\ opName = "set_speed_profile"
       /\ \E k \in 1 .. Len(opArgs[2]) :
            \/ Temp(opArgs[2][k]) < MIN_CURVE_TEMP
            \/ Temp(opArgs[2][k]) > CRITICAL_TEMPERATURE
            \/ ValidateDuty(opArgs[1], Duty(opArgs[2][k])).kind # "Ok"
    \/ opName = "set_brightness" /\ opArgs[1] > 100
    \/ opName = "set_orientation" /\ opArgs[1] > 3
    \/ opName = "set_lcd_config" /\ (opArgs[1] > 100 \/ opArgs[2] > 3)

\* C12: a control call given an out-of-range argument that ends in a
\* validation error has written no frame to the transport.
C12_ValidationBeforeWrite ==
    (ArgOutOfRange /\ opRet.kind \in ValidationErrors) => opWire = <<>>

\* C13: validate_duty(channel, d) succeeds exactly when d lies between the
\* channel's minimum (Pump 20, Fan 0) and 100; build_fixed_speed_cmd fails
\* with InvalidDuty otherwise and else gives a 64-byte frame: 0x72, the
\* channel id, forty bytes equal to d, then zeros.
C13_DutyRangeAndFixedFrame ==
    LET ch == opArgs[1]
        d == opArgs[2]
        inRange == (IF ch = "Pump" THEN 20 ELSE 0) <= d /\ d <= 100
        frame == opRet.val
    IN  /\ opName = "validate_duty" => (opRet.kind = "Ok" <=> inRange)
        /\ opName = "build_fixed_speed_cmd" =>
            IF inRange
            THEN /\ opRet.kind = "Ok"
                 /\ Len(frame) = 64
                 /\ frame[1] = 114
                 /\ frame[2] = (IF ch = "Pump" THEN 1 ELSE 2)
                 /\ \A k \in 2 .. 41 : frame[k + 1] = d
                 /\ \A k \in 42 .. 63 : frame[k + 1] = 0
            ELSE opRet.kind = "InvalidDuty"

\* The frame for the lowest duty the pump accepts has been built.
C13_Witness ==
    /\ opName = "build_fixed_speed_cmd"
    /\ opArgs = <<"Pump", 20>>
    /\ opRet.kind = "Ok"
    /\ opRet.val[3] = 20

\* Points of a profile as a set, and the temperatures and duties in it.
PointsOf(profile) == {profile[k] : k \in 1 .. Len(profile)}
TempsOf(profile) == {Temp(pt) : pt \in PointsOf(profile)}
DutiesOf(profile) == {Duty(pt) : pt \in PointsOf(profile)}
DutiesAt(profile, t) == {Duty(pt) : pt \in {q \in PointsOf(profile) : Temp(q) = t}}

\* v is an integer nearest to the point at t of the line through
\* (t1, d1) and (t2, d2).
NearestOnLine(v, t1, d1, t2, d2, t) ==
    LET dist == v * (t2 - t1) - (d1 * (t2 - t1) + (t - t1) * (d2 - d1))
    IN  2 * dist <= t2 - t1 /\ 2 * (0 - dist) <= t2 - t1

\* v is the value the claim gives temperature t under the profile.
ProfileValueOk(profile, t, v) ==
    LET below == {x \in TempsOf(profile) : x < t}
        above == {x \in TempsOf(profile) : x > t}
    IN  IF t \in TempsOf(profile) THEN v \in DutiesAt(profile, t)
        ELSE IF below # {} /\ above # {}
        THEN \E d1 \in DutiesAt(profile, MaxOf(below)), d2 \in DutiesAt(profile, MinOf(above)) :
                NearestOnLine(v, MaxOf(below), d1, MinOf(above), d2, t)
        ELSE IF below = {} THEN v \in DutiesAt(profile, MinOf(above))
        ELSE v \in DutiesAt(profile, MaxOf(below))

\* C14: for a non-empty profile with every temperature in 20..59,
\* interpolate_profile returns exactly 40 values; the value at index
\* t - 20 is the duty of a given point at t, else the rounded linear
\* interpolation between the nearest given points below and above t, else
\* the duty of the lowest point (t below all) or of the highest point
\* (t above all); so every value lies between the least and the greatest
\* given duty.
C14_ProfileInterpolation ==
    (/\ opName = "interpolate_profile"
     /\ opArgs[1] # <<>>
     /\ \A t \in TempsOf(opArgs[1]) : 20 <= t /\ t <= 59) =>
        /\ opRet.kind = "Ok"
        /\ DOMAIN opRet.val = 0 .. 39
        /\ \A t \in 20 .. 59 :
            /\ ProfileValueOk(opArgs[1], t, opRet.val[t - 20])
            /\ MinOf(DutiesOf(opArgs[1])) <= opRet.val[t - 20]
            /\ opRet.val[t - 20] <= MaxOf(DutiesOf(opArgs[1]))

\* A profile given out of order was interpolated: 10 below and at 20,
\* one of the neighbours of 12.5 at 21, 18 for 17.5 at 23, 25 from 26 on.
C14_Witness ==
    /\ opName = "interpolate_profile"
    /\ opArgs = << << <<26, 25>>, <<20, 10>> >> >>
    /\ opRet.kind = "Ok"
    /\ opRet.val[0] = 10
    /\ opRet.val[1] = 12
    /\ opRet.val[3] = 18
    /\ opRet.val[39] = 25

\* Two temperatures of the curve with no temperature of the curve between them.
Neighbours(curve, t1, t2) ==
    /\ t1 \in TempsOf(curve)
    /\ t2 \in TempsOf(curve)
    /\ t1 < t2
    /\ ~\E x \in TempsOf(curve) : t1 < x /\ x < t2

\* C15: interpolate_duty returns 50 for an empty curve; else the duty of
\* the lowest point for t at or below it, the duty of the highest point for
\* t at or above it, and in between the rounded linear interpolation of the
\* two points that bracket t; it gives 38 at 30 for (20,25),(40,50),(60,100);
\* it returns a value for every curve, in whatever order the points come.
C15_DutyInterpolation ==
    opName = "interpolate_duty" =>
        LET curve == opArgs[1]
            t == opArgs[2]
            v == opRet.val
        IN  /\ opRet.kind = "Ok"
            /\ v \in 0 .. 255
            /\ curve = <<>> => v = 50
            /\ curve # <<>> =>
                IF t <= MinOf(TempsOf(curve)) THEN v \in DutiesAt(curve, MinOf(TempsOf(curve)))
                ELSE IF t >= MaxOf(TempsOf(curve)) THEN v \in DutiesAt(curve, MaxOf(TempsOf(curve)))
                ELSE \E t1, t2 \in TempsOf(curve) :
                        /\ Neighbours(curve, t1, t2)
                        /\ t1 <= t /\ t <= t2
                        /\ \E d1 \in DutiesAt(curve, t1), d2 \in DutiesAt(curve, t2) :
                              NearestOnLine(v, t1, d1, t2, d2, t)
            /\ (curve = << <<20, 25>>, <<40, 50>>, <<60, 100>> >> /\ t = 30) => v = 38

\* The curve of the example, given in another order, was evaluated at 30.
C15_Witness ==
    /\ opName = "interpolate_duty"
    /\ opArgs = << << <<60, 100>>, <<20, 25>>, <<40, 50>> >>, 30 >>
    /\ opRet = Ok(38)

\* C16: parsing picks the field layout by the header.  A frame with the
\* primary header 0x75 0x01 and no fault sentinel gives temperature
\* byte 15 + byte 16 / 10 (kept in tenths), pump RPM from bytes 17..18 and
\* fan RPM from bytes 23..24 (little-endian), pump duty byte 19 and fan
\* duty byte 20.  A frame whose header is neither the primary nor an
\* alternate status header gives InvalidResponse and no status at all.
C16_LayoutByHeader ==
    (opName = "parse" /\ Len(opArgs[1]) >= 25) =>
        LET f == opArgs[1]
            primary == f[1] = 117 /\ f[2] = 1
            alternate == (f[1] = 113 \/ f[1] = 255) /\ f[2] = 1
        IN  /\ (primary /\ <<f[16], f[17]>> # <<255, 255>>) =>
                /\ opRet.kind = "Ok"
                /\ opRet.status.temp10 = 10 * f[16] + f[17]
                /\ opRet.status.pump_rpm = f[18] + 256 * f[19]
                /\ opRet.status.pump_duty = f[20]
                /\ opRet.status.fan_duty = f[21]
                /\ opRet.status.fan_rpm = f[24] + 256 * f[25]
            /\ (~primary /\ ~alternate) =>
                /\ opRet.kind = "InvalidResponse"
                /\ opRet.status = NoStatus

\* A primary status frame reading 32.5 degrees was parsed.
C16_Witness ==
    /\ opName = "parse"
    /\ opArgs = <<MkFrame(117, 1, 32, 5)>>
    /\ opRet.kind = "Ok"
    /\ opRet.status.temp10 = 325
    /\ opRet.status.pump_duty = 29

\* C17: when no bucket other than the target is occupied, the offset
\* computed is 0, for every target and page count and whatever region the
\* target itself holds.
C17_AloneStartsAtZero ==
    (/\ opName = "calculate_memory_offset"
     /\ \A k \in 1 .. Len(opArgs[1]) :
            opArgs[1][k].idx # opArgs[2] => ~opArgs[1][k].exists) =>
        opRet = Ok(0)

(***************************************************************************)
(* Further claims about the bucket manager                                 *)
(***************************************************************************)
\* C18: bucket 15 is left to the system: acquire() never returns index 15
\* and never issues a device delete for bucket 15, from new() and from
\* from_device() alike.
C18_Bucket15Reserved ==
    /\ acqRet # 15
    /\ \A k \in 1 .. Len(acqDeletes) : acqDeletes[k] # 15

\* Position of x in a sequence without repetitions.
PosIn(q, x) == CHOOSE k \in 1 .. Len(q) : q[k] = x
Elems(q) == {q[k] : k \in 1 .. Len(q)}

\* C19: in every state of the manager, release(i) marks slot i free and
\* takes it out of the arrival order, leaves every other slot and the
\* relative order of the remaining entries as they were, gives the same
\* state when applied a second time, and changes nothing when slot i is
\* already free or i is 16 or more.
C19_ReleaseAlgebra ==
    \A i \in ReleaseArgs :
        LET r == ReleaseOf(occupied, queue, i)
            again == ReleaseOf(r.occupied, r.queue, i)
        IN  /\ i \in Indices => ~r.occupied[i]
            /\ \A j \in Indices \ {i} : r.occupied[j] = occupied[j]
            /\ Elems(r.queue) = Elems(queue) \ {i}
            /\ Len(r.queue) = Cardinality(Elems(r.queue))
            /\ \A k \in 1 .. (Len(r.queue) - 1) :
                  PosIn(queue, r.queue[k]) < PosIn(queue, r.queue[k + 1])
            /\ again = r
            /\ (i \notin Indices \/ ~occupied[i]) => (r.occupied = occupied /\ r.queue = queue)

\* A release has taken slot 1 out from between slots 0 and 2.
C19_Witness ==
    /\ releases = 1
    /\ queue = <<0, 2>>
    /\ occupied[0] /\ ~occupied[1] /\ occupied[2]

\* C20: in each command loop (monitor, lcd-monitor, cooling-daemon, start)
\* the cancellation flag is read once per iteration, at the head of the loop:
\* once Ctrl+C has cleared it, the iteration in progress runs to its end,
\* no further iteration starts, and the command returns.
C20_CancelEndsLoop == (~running) ~> (loopPc \in LoopEnded)

(***************************************************************************)
(* Properties of acquire()                                                 *)
(***************************************************************************)
\* The step is a call of acquire(): only acquire() leaves a returned index.
AcquireStep == acqRet' # None

\* i is the lowest index that occ marks free.
LowestFree(occ, i) == i \in Indices /\ ~occ[i] /\ \A j \in Indices : j < i => occ[j]

\* C21: with fewer than 12 slots tracked, acquire() returns the lowest free
\* index of 0..15, marks it occupied, appends it to the arrival order, issues
\* no device delete and changes no other slot; hence, with fewer than 12
\* slots tracked after release(x), the acquire() that follows returns x
\* whenever x is then the lowest free index.
C21_FreeSlotScan ==
    /\ [][(AcquireStep /\ Len(queue) < 12) =>
            /\ LowestFree(occupied, acqRet')
            /\ occupied' = [occupied EXCEPT ![acqRet'] = TRUE]
            /\ queue' = Append(queue, acqRet')
            /\ acqDeletes' = <<>>]_vars
    /\ [](\A x \in Indices :
            LET r == ReleaseOf(occupied, queue, x)
            IN  (Len(r.queue) < 12 /\ LowestFree(r.occupied, x)) =>
                    AcquireOf(r.occupied, r.queue).ret = x)

\* C21 witness: on a new manager slots 0, 1, 2 were acquired, 0 was
\* released and the next acquire() returned 0 again.
C21_Witness ==
    /\ releases = 1
    /\ acqRet = 0
    /\ acqDeletes = <<>>
    /\ queue = <<1, 2, 0>>
    /\ occupied[0] /\ occupied[1] /\ occupied[2] /\ ~occupied[3]

C23_ReturnedSlotTracked ==
    acqRet # None =>
        /\ acqRet \in Indices
        /\ occupied[acqRet]
        /\ queue # <<>>
        /\ queue[Len(queue)] = acqRet

\* C23 witness: acquire() returned 0 by eviction on a manager seeded from a
\* device with all 16 buckets.
C23_Witness ==
    /\ acqRet = 0
    /\ Len(acqDeletes) = 8
    /\ occupied[15]
    /\ queue[Len(queue)] = 0

\* C28: an acquire() that evicts neither deletes on the device nor frees
\* the slot the acquire() before it returned, nor the newest tracked slot.
C28_EvictionSparesNewest ==
    [][(AcquireStep /\ acqDeletes' # <<>>) =>
        /\ acqRet # None =>
              /\ \A k \in 1 .. Len(acqDeletes') : acqDeletes'[k] # acqRet
              /\ occupied'[acqRet]
        /\ queue # <<>> =>
              /\ \A k \in 1 .. Len(acqDeletes') : acqDeletes'[k] # queue[Len(queue)]
              /\ occupied'[queue[Len(queue)]]]_vars

\* C28 witness: the 13th consecutive acquire() evicted and slot 11, handed
\* out by the 12th, is still tracked.
C28_Witness ==
    /\ acqRun # Untracked
    /\ Len(acqRun) = 13
    /\ acqRun[12] = 11
    /\ Len(acqDeletes) = 8
    /\ occupied[11]

(***************************************************************************)
(* Properties of the memory layout planner                                 *)
(***************************************************************************)
\* The rule of the planner in unbounded arithmetic: the number of the rule
\* that applies and the offset it gives.
PageEnds(bk, target) == {bk[k].start + bk[k].size : k \in Others(bk, target)}
PageStarts(bk, target) == {bk[k].start : k \in Others(bk, target)}
PlannerRule(bk, target, needed) ==
    LET fits == {k \in 1 .. Len(bk) :
                    bk[k].idx = target /\ bk[k].exists /\ bk[k].size >= needed}
        max_end == IF Others(bk, target) = {} THEN 0 ELSE MaxOf(PageEnds(bk, target))
    IN  IF fits # {} THEN [rule |-> 1, offset |-> bk[MinOf(fits)].start]
        ELSE IF max_end + needed <= 24320 THEN [rule |-> 2, offset |-> max_end]
        ELSE IF Others(bk, target) # {} /\ needed <= MinOf(PageStarts(bk, target))
        THEN [rule |-> 3, offset |-> 0]
        ELSE [rule |-> 4, offset |-> 0]

\* The pages [offset, offset + needed) share no page with an occupied
\* bucket other than the target.
ClearOfOthers(bk, target, offset, needed) ==
    \A k \in Others(bk, target) :
        ~(offset < bk[k].start + bk[k].size /\ bk[k].start < offset + needed)

\* C24: calculate_memory_offset returns (1) the target's current start when
\* the target is occupied with size >= needed, otherwise (2) max_end when
\* max_end + needed <= 24320, else (3) 0 when needed <= min_start, else
\* (4) 0, max_end and min_start taken over the other occupied buckets; a
\* result of rule (2) or (3) overlaps no other occupied bucket.
C24_PlannerPriority ==
    opName = "calculate_memory_offset" =>
        LET p == PlannerRule(opArgs[1], opArgs[2], opArgs[3])
        IN  /\ opRet = Ok(p.offset)
            /\ p.rule \in {2, 3} =>
                  ClearOfOthers(opArgs[1], opArgs[2], p.offset, opArgs[3])

\* C30: for every bucket table whose occupied ranges lie inside the region
\* and every needed page count 0..65535, calculate_memory_offset returns an
\* offset with offset + needed <= 24320, and its sums start + size and
\* max_end + needed do not exceed 16 bits.
C30_StaysInRegion ==
    (/\ opName = "calculate_memory_offset"
     /\ \A k \in 1 .. Len(opArgs[1]) :
            opArgs[1][k].start + opArgs[1][k].size <= LCD_TOTAL_MEMORY) =>
        /\ opRet.kind = "Ok"
        /\ opRet.val + opArgs[3] <= LCD_TOTAL_MEMORY
        /\ ~CalcOverflows(opArgs[1], opArgs[2], opArgs[3])

(***************************************************************************)
(* Properties of initialize()                                              *)
(***************************************************************************)
\* The commands of initialize() in the order of the claim.
InitOrder == <<"FirmwareInfo", "LedInfo", "InitInterval", "InitComplete">>

\* The frame left in buf by the firmware loop is a firmware-info response.
FirmwareSeen == Byte(sBuf, 0) = RESP_FIRMWARE[1] /\ Byte(sBuf, 1) = RESP_FIRMWARE[2]

\* C25: initialize() writes nothing while it drains, then writes the
\* firmware-info, LED-info, interval-setup and init-complete commands in
\* this order, each once; a failed write ends the call with an error and no
\* later command is written; with no firmware-info response recognized in
\* the 10 reads the other three commands are still written and the call
\* returns Ok with version 0.0.0.
C25_InitializeOrder ==
    sCall = "initialize" =>
        /\ IsPrefix(sLog, InitOrder)
        /\ sPc = "drain" => sLog = <<>>
        /\ sPc # "idle" => sResult = NoResult
        /\ sPc \in {"led", "interval", "complete"} =>
              FirmwareSeen \/ (sReads = READ_TRIES /\ sFw = NoVersion)
        /\ sPc = "idle" =>
              /\ sResult.kind \in {"Ok", "HidError"}
              /\ sResult.kind = "HidError" => sLog # <<>>
              /\ sResult.kind = "Ok" =>
                    /\ sLog = InitOrder
                    /\ sResult.fw = sFw
                    /\ ~FirmwareSeen => sReads = READ_TRIES /\ sResult.fw = NoVersion

\* C25 witness: initialize() returned Ok with version 0.0.0 after 10 reads
\* without a firmware-info response and all four writes.
C25_Witness ==
    /\ sCall = "initialize"
    /\ sPc = "idle"
    /\ sResult.kind = "Ok"
    /\ sResult.fw = NoVersion
    /\ sReads = READ_TRIES
    /\ ~FirmwareSeen
    /\ sLog = InitOrder

\* C29: firmware_version() is None before any successful initialize() and
\* Some(v) once initialize() has returned Ok(v).
C29_FirmwareFollowsInit ==
    /\ ~initialized => firmware = NoFirmware
    /\ (sCall = "initialize" /\ sPc = "idle" /\ sResult.kind = "Ok") =>
          /\ firmware # NoFirmware
          /\ firmware = sResult.fw

(***************************************************************************)
(* Properties of the mirror kept by the monitor loop                       *)
(***************************************************************************)
\* C26: from a cleared device and an empty manager, after any number of
\* cycles of acquire() and an upload to the returned slot, every slot that
\* holds an asset on the device is tracked as occupied by the manager,
\* whether the upload and the device commands of the cycles succeed or fail.
C26_DeviceAssetsTracked ==
    \A i \in Indices : dev[i].size > 0 => occupied[i]

(***************************************************************************)
(* Properties of query_all_buckets                                         *)
(***************************************************************************)
\* C27: query_all_buckets returns 16 entries for the slots 0..15 in order
\* and entry i carries what the device reported in answer to the query for
\* slot i: no response is attributed to another slot, also when it arrives
\* after the reads of its query are used up or when a query goes unanswered.
C27_QueryAttribution ==
    /\ Len(qOut) <= MAX_BUCKETS
    /\ qPc = "done" => Len(qOut) = MAX_BUCKETS
    /\ \A k \in 1 .. Len(qOut) :
          /\ qOut[k].idx = k - 1
          /\ qSrc[k] \in {None, k - 1}
          /\ qOut[k] = QueryBucket(dev, k - 1, qSrc[k] # None)

====
